---- MODULE Spec2Model ----
(***************************************************************************)
(* Beat-synchronised audio resynthesis of the hardstyleifier repository.   *)
(*                                                                         *)
(* Four beat-overlay mixers exist in the source:                           *)
(*   "server"  - processAudioWithBeats      (src/unnamed/part_000)         *)
(*   "simple"  - processAudioInBrowser      (src/unnamed/part_001)         *)
(*   "duck"    - processAudioInBrowser      (src/unnamed/part_002)         *)
(*   "preduck" - processAudioInBrowser      (src/app/audioProcessor.ts)    *)
(*                                                                         *)
(* Sample amplitudes, beat times and gains are exact rationals             *)
(* [n |-> numerator, d |-> denominator > 0] in lowest terms; the record    *)
(* with d = 0 stands for the JavaScript values NaN and undefined, which    *)
(* behave alike in every expression modelled here (arithmetic yields NaN,  *)
(* comparisons are false, both are falsy).  Float32 rounding is not        *)
(* modelled in the mixers.  Arrays are functions on 0 .. length-1 as in    *)
(* the source.                                                             *)
(*                                                                         *)
(* Two further state machines share the module:                            *)
(*   generateBrainrotSong (src/app/brainrotProcessor.ts), specification    *)
(*   BrainrotSpec: slice extraction, shuffle, selection and compositing;   *)
(*   the PCM16 conversion of processAudioWithBeats applied to the          *)
(*   Float32Array it reads, specification QuantizerSpec; there the         *)
(*   rounding of a stored sample to Float32 is modelled.                   *)
(*   the Essentia singleton of src/app/essentiaInstance.ts,                *)
(*   specification EssentiaSpec: calls, initializations and cleanups       *)
(*   interleaved at the await points of the code.                          *)
(*   the PixooVisualizer class (src/unnamed/part_005) driven by free       *)
(*   method calls, specification VisualizerSpec: its flag, its interval    *)
(*   timers, and the commands its calls send, one step per await.          *)
(*   the two pages (src/unnamed/part_003 with the visualizer and the       *)
(*   banger score, src/unnamed/part_004 without), specification PageSpec:  *)
(*   the handlers for choosing a file, analyzing, processing and playing,  *)
(*   with their awaits, the 3 s stop timeout and the ended events of the   *)
(*   audio sources; PageLiveSpec adds that a pending processing settles.   *)
(*   handleTestPixoo and handleDownload are left out.                      *)
(* While one machine runs, the variables of the others rest.               *)
(***************************************************************************)
EXTENDS Integers, Sequences, FiniteSets, TLC

VARIABLES variant, sampleRate, audioData, beats, tickSamples, tockSamples,
          outputData, pc, index, samplePosition, halfBeatPosition,
          preDuck, duckLog, int16Buffer, wavData

\* generateBrainrotSong
VARIABLES audioBuffers, allDownbeats, heap, slices, extracted, bpc, songIndex,
          shuffleIndex, shuffleDraws, countDraw, numSlices, selectedSlices,
          brainrotOutput, currentPosition, sliceIndex, writeCount,
          processedBuffer

\* PCM16 conversion of a stored buffer
VARIABLES sampleValue, outputBuffer, pcmBuffer, qpc

mixerVars == <<variant, sampleRate, audioData, beats, tickSamples, tockSamples,
               outputData, pc, index, samplePosition, halfBeatPosition,
               preDuck, duckLog, int16Buffer, wavData>>

brainrotVars == <<audioBuffers, allDownbeats, heap, slices, extracted, bpc,
                  songIndex, shuffleIndex, shuffleDraws, countDraw, numSlices,
                  selectedSlices, brainrotOutput, currentPosition, sliceIndex,
                  writeCount, processedBuffer>>

\* Essentia singleton
VARIABLES essentiaInstance, essentiaPromise, promises, calls, deleted,
          cleanups, pendingAtCleanup, getAfterCleanup

\* PixooVisualizer
VARIABLES isRunning, beatInterval, currentBpm, timers, timerCount,
          updatePc, updateArg, updateLog, updateOutcome,
          flashPc, flashTimeouts, stopped, sentAfterStop,
          apiCalls, effectsDrawn

\* the page component
VARIABLES pageKind, file, analyzing, processing, message, banificationScore,
          processedAudio, isPlaying, audioControl, analyzePc, processPc,
          stopTimeouts, sources, sourceCount, processCount, processOutcome,
          syncedSource, clicks

quantizerVars == <<sampleValue, outputBuffer, pcmBuffer, qpc>>

\* React state of the page
stateVars == <<file, analyzing, processing, message, banificationScore,
               processedAudio, isPlaying, audioControl>>

pageVars == <<pageKind, stateVars, analyzePc, processPc, stopTimeouts, sources,
              sourceCount, processCount, processOutcome, syncedSource, clicks>>

coreVars == <<mixerVars, brainrotVars, quantizerVars>>

\* fields of the visualizer and the window's interval timers
runVars == <<isRunning, beatInterval, currentBpm, timers, timerCount>>

\* the updateMetrics call in flight
updateVars == <<updatePc, updateArg, updateLog, updateOutcome>>

\* the flashBeat call in flight and its pending timeouts
flashVars == <<flashPc, flashTimeouts>>

\* what was sent to the display since the last stop()
wireVars == <<stopped, sentAfterStop>>

visualizerVars == <<runVars, updateVars, flashVars, wireVars, apiCalls,
                    effectsDrawn>>

essentiaVars == <<essentiaInstance, essentiaPromise, promises, calls, deleted,
                  cleanups, pendingAtCleanup, getAfterCleanup>>

appVars == <<essentiaVars, visualizerVars, pageVars>>

vars == <<mixerVars, brainrotVars, quantizerVars, appVars>>

----------------------------------------------------------------------------
(* Bounds of the model. *)

\* longest beat sequence drawn
MaxBeats == 2
\* length of the short original buffer
ShortLen == 3
\* length of the long original buffer (holds a whole release ramp at 200 Hz)
BufLen == 36

----------------------------------------------------------------------------
(* Exact rational arithmetic with NaN. *)

Abs(x) == IF x < 0 THEN -x ELSE x

RECURSIVE GCD(_, _)
GCD(a, b) == IF b = 0 THEN a ELSE GCD(b, a % b)

NaN == [n |-> 0, d |-> 0]

IsNaN(a) == a.d = 0

\* n/d in lowest terms, d # 0
R(n, d) ==
    LET s == IF d < 0 THEN -1 ELSE 1
        g == GCD(Abs(n), Abs(d))
    IN  [n |-> (s * n) \div g, d |-> (s * d) \div g]

Num(k) == [n |-> k, d |-> 1]

RAdd(a, b) == IF IsNaN(a) \/ IsNaN(b) THEN NaN
              ELSE R(a.n * b.d + b.n * a.d, a.d * b.d)

RNeg(a) == IF IsNaN(a) THEN NaN ELSE [n |-> -a.n, d |-> a.d]

RSub(a, b) == RAdd(a, RNeg(b))

RMul(a, b) == IF IsNaN(a) \/ IsNaN(b) THEN NaN
              ELSE R(a.n * b.n, a.d * b.d)

\* 0/0 is NaN; x/0 with x # 0 (an Infinity) is never reached: every division
\* of the mixers sits behind a guard that makes its divisor positive
RDiv(a, b) == IF IsNaN(a) \/ IsNaN(b) \/ b.n = 0 THEN NaN
              ELSE R(a.n * b.d, a.d * b.n)

\* comparisons with NaN are false
RLt(a, b) == ~IsNaN(a) /\ ~IsNaN(b) /\ a.n * b.d < b.n * a.d

RLe(a, b) == ~IsNaN(a) /\ ~IsNaN(b) /\ a.n * b.d <= b.n * a.d

RAbs(a) == IF IsNaN(a) THEN NaN ELSE [n |-> Abs(a.n), d |-> a.d]

\* Math.floor: towards minus infinity; NaN stays NaN
MathFloor(a) == IF IsNaN(a) THEN NaN ELSE Num(a.n \div a.d)

\* Math.max / Math.min on non-NaN arguments
MathMax(a, b) == IF RLt(a, b) THEN b ELSE a

MathMin(a, b) == IF RLt(b, a) THEN b ELSE a

\* a || b : a is falsy when it is undefined, NaN or 0
JsOr(a, b) == IF IsNaN(a) \/ a.n = 0 THEN b ELSE a

----------------------------------------------------------------------------
(* Arrays. *)

Arr(s) == [i \in 0 .. Len(s) - 1 |-> s[i + 1]]

ALen(a) == Cardinality(DOMAIN a)

\* arr[i] of a plain array: undefined past the end
ArrayGet(arr, i) == IF i \in DOMAIN arr THEN arr[i] ELSE NaN

\* read of a Float32Array element at a numeric index: undefined outside
TypedArrayGet(arr, idx) ==
    IF ~IsNaN(idx) /\ idx.d = 1 /\ idx.n \in DOMAIN arr THEN arr[idx.n] ELSE NaN

\* a plain Array would grow (or gain properties) instead of dropping writes
PlainArrayStore(arr, w) ==
    [k \in DOMAIN arr \cup DOMAIN w |-> IF k \in DOMAIN w THEN w[k] ELSE arr[k]]



\* writes w (index |-> value, indices distinct) into a Float32Array: an index
\* that is no valid integer index of the array is ignored, the length never
\* changes
TypedArrayStore(arr, w) ==
    [k \in DOMAIN arr |-> IF k \in DOMAIN w THEN w[k] ELSE arr[k]]

\* arr[idx] = v on a Float32Array; a NaN index names no element
TypedArraySet(arr, idx, v) ==
    IF IsNaN(idx) \/ idx.d # 1 THEN arr ELSE TypedArrayStore(arr, idx.n :> v)

----------------------------------------------------------------------------
(* Inputs: what the decoder, the beat detector and the sample files hand   *)
(* to the mixers.                                                          *)

Variants == {"server", "simple", "duck", "preduck"}

Ducking == {"duck", "preduck"}

\* sample rates drawn; the ducking mixers multiply gains per beat, so their
\* rates are kept small enough for exact arithmetic
SampleRates(v) == IF v \in Ducking THEN {4, 20, 200} ELSE {4, 200, 44100}

\* beat timestamps in seconds
BeatTimes == {R(-1, 100), Num(0), R(1, 200), R(1, 100), R(1, 4), Num(1), Num(2)}

\* non-decreasing beat sequences of up to MaxBeats beats, possibly empty
BeatSequences ==
    {b \in UNION {[0 .. k - 1 -> BeatTimes] : k \in 0 .. MaxBeats} :
        \A i \in DOMAIN b : (i + 1) \in DOMAIN b => RLe(b[i], b[i + 1])}

\* the original signal: full-scale samples of both signs and a half-scale one
Pattern == <<Num(1), Num(-1), R(1, 2)>>

Signal(len) == [j \in 0 .. len - 1 |-> Pattern[(j % 3) + 1]]

AudioChoices == {Signal(ShortLen), Signal(BufLen)}

\* hskick.wav: a one-sample kick (shorter than a two-sample attack) and a
\* three-sample one
TickChoices == {Arr(<<Num(1)>>), Arr(<<Num(1), Num(-1), R(1, 2)>>)}

\* tick.wav
TockChoice == Arr(<<R(-1, 2), Num(1)>>)

----------------------------------------------------------------------------
(* Parameters of the four mixers. *)


\* slip: the ducking mixers copy the original at half volume too
BaseVolumeAlwaysHalf(v) == R(1, 2)

BaseVolume(v) == IF v \in {"server", "simple"} THEN R(1, 2) ELSE Num(1)

\* gain of the sample overlaid on the beat (tick / kick)
TickGain(v) ==
    CASE v = "server"  -> R(2, 5)
      [] v = "simple"  -> R(2, 5)
      [] v = "duck"    -> R(3, 5)
      [] v = "preduck" -> R(1, 2)

TockGain == R(2, 5)

HasTock(v) == v \in {"server", "simple"}

duckAmount == R(1, 5)

attackSamples == MathFloor(RMul(R(1, 100), Num(sampleRate))).n

releaseSamples == MathFloor(RMul(R(15, 100), Num(sampleRate))).n

totalSamples == ALen(audioData)

----------------------------------------------------------------------------
(* Sample positions. *)

SamplePosition(beatTime) == MathFloor(RMul(beatTime, Num(sampleRate)))

\* arr[index + 1], with the 0.5 s fallback where the variant has one
NextBeat(v, arr, i, beatTime) ==
    IF v = "server" THEN ArrayGet(arr, i + 1)
    ELSE JsOr(ArrayGet(arr, i + 1), RAdd(beatTime, R(1, 2)))

HalfBeatSeconds(v, arr, i) ==
    LET beatTime == arr[i]
    IN  RAdd(beatTime,
             RDiv(RAbs(RSub(NextBeat(v, arr, i, beatTime), beatTime)), Num(2)))

HalfBeatPosition(v, arr, i) ==
    IF v = "duck" THEN NaN
    ELSE MathFloor(RMul(HalfBeatSeconds(v, arr, i), Num(sampleRate)))

----------------------------------------------------------------------------
(* The loops of the mixers. *)


\* slip: out[outputIndex] = samples[i] * gain replaces instead of adding
RECURSIVE OverlayLoopAssign(_, _, _, _, _)
OverlayLoopAssign(out, samples, position, gain, i) ==
    IF i >= ALen(samples) THEN out
    ELSE LET outputIndex == RAdd(position, Num(i))
             next == IF RLt(outputIndex, Num(totalSamples))
                     THEN TypedArraySet(out, outputIndex, RMul(samples[i], gain))
                     ELSE out
         IN  OverlayLoopAssign(next, samples, position, gain, i + 1)

\* for (i = 0; i < samples.length; i++) {
\*     outputIndex = position + i;
\*     if (outputIndex < totalSamples) out[outputIndex] += samples[i] * gain; }
RECURSIVE OverlayLoop(_, _, _, _, _)
OverlayLoop(out, samples, position, gain, i) ==
    IF i >= ALen(samples) THEN out
    ELSE LET outputIndex == RAdd(position, Num(i))
             next == IF RLt(outputIndex, Num(totalSamples))
                     THEN TypedArraySet(out, outputIndex,
                              RAdd(TypedArrayGet(out, outputIndex),
                                   RMul(samples[i], gain)))
                     ELSE out
         IN  OverlayLoop(next, samples, position, gain, i + 1)


\* slip: the release progress is counted from the beat, not from the end of
\* the kick
Envelope002ReleaseFromBeat(i) ==
    LET kickDuration == ALen(tickSamples)
    IN  IF i < attackSamples
        THEN RSub(Num(1), RMul(RSub(Num(1), duckAmount),
                               RDiv(Num(i), Num(attackSamples))))
        ELSE IF i < kickDuration
        THEN duckAmount
        ELSE RAdd(duckAmount,
                  RMul(RSub(Num(1), duckAmount),
                       RDiv(Num(i), Num(releaseSamples))))

\* envelope of part_002 at loop counter i (offset from the beat)
Envelope002(i) ==
    LET kickDuration == ALen(tickSamples)
    IN  IF i < attackSamples
        THEN RSub(Num(1), RMul(RSub(Num(1), duckAmount),
                               RDiv(Num(i), Num(attackSamples))))
        ELSE IF i < kickDuration
        THEN duckAmount
        ELSE RAdd(duckAmount,
                  RMul(RSub(Num(1), duckAmount),
                       RDiv(Num(i - kickDuration), Num(releaseSamples))))


\* slip: i <= duckDuration ducks one sample too many
DuckLoop002OneMore(out, position) ==
    LET duckDuration == ALen(tickSamples) + releaseSamples
        iters == {i \in 0 .. duckDuration : position + i < totalSamples}
        w == [k \in {position + i : i \in iters} |->
                RMul(TypedArrayGet(out, Num(k)), Envelope002(k - position))]
    IN  [out |-> TypedArrayStore(out, w),
         log |-> {[i |-> i, idx |-> position + i, gain |-> Envelope002(i)] :
                    i \in iters}]

\* for (i = 0; i < duckDuration && (samplePosition + i) < totalSamples; i++)
\*     outputData[samplePosition + i] *= envelope;
\* Iteration i touches index samplePosition + i only, so the iterations are
\* taken together; the guard is monotone in i, so the loop runs exactly the
\* i that satisfy it.  Result: the buffer and the (i, index, gain) of every
\* iteration.
DuckLoop002(out, position) ==
    LET duckDuration == ALen(tickSamples) + releaseSamples
        iters == {i \in 0 .. duckDuration - 1 : position + i < totalSamples}
        w == [k \in {position + i : i \in iters} |->
                RMul(TypedArrayGet(out, Num(k)), Envelope002(k - position))]
    IN  [out |-> TypedArrayStore(out, w),
         log |-> {[i |-> i, idx |-> position + i, gain |-> Envelope002(i)] :
                    i \in iters}]


\* slip: the attack progress is counted from samplePosition - attackSamples
\* even when the window is clamped at the start of the buffer
DuckGainUnclamped(i, position, duckStart) ==
    IF i < position
    THEN LET progress == RDiv(Num(i - (position - attackSamples)), Num(attackSamples))
         IN  RSub(Num(1), RMul(progress, RSub(Num(1), duckAmount)))
    ELSE duckAmount

\* duckGain of audioProcessor.ts at output index i
DuckGain(i, position, duckStart) ==
    IF i < position
    THEN LET progress == RDiv(Num(i - duckStart), Num(attackSamples))
         IN  RSub(Num(1), RMul(progress, RSub(Num(1), duckAmount)))
    ELSE duckAmount

\* for (i = duckStart; i < duckEnd; i++) outputData[i] *= duckGain;
\* Iteration i touches index i only, so the iterations are taken together.
DuckLoopPre(out, position, duckStart, duckEnd) ==
    LET iters == duckStart .. duckEnd - 1
        w == [k \in iters |->
                RMul(TypedArrayGet(out, Num(k)), DuckGain(k, position, duckStart))]
    IN  [out |-> TypedArrayStore(out, w),
         log |-> {[i |-> i, idx |-> i,
                   gain |-> DuckGain(i, position, duckStart)] : i \in iters}]

----------------------------------------------------------------------------
(* Quantizers. *)


\* slip: the sample is scaled without clamping
NoClamp(x) == x

\* Math.max(-1, Math.min(1, x))
Clamp(x) == MathMax(Num(-1), MathMin(Num(1), x))

\* n * m = q * d + r with 0 <= r < d, for n >= 0, m >= 0, d > 0, by doubling,
\* so that the product itself is never formed: <<q, r>>
RECURSIVE MulDiv(_, _, _)
MulDiv(n, m, d) ==
    IF m = 0 THEN <<0, 0>>
    ELSE LET h == MulDiv(n, m \div 2, d)
             r2 == 2 * h[2] + (IF m % 2 = 1 THEN n ELSE 0)
         IN  <<2 * h[1] + (r2 \div d), r2 % d>>

\* Math.floor(x * m) for an integer m > 0
FloorOfProduct(x, m) ==
    LET qr == MulDiv(Abs(x.n), m, x.d)
    IN  IF x.n >= 0 THEN qr[1]
        ELSE IF qr[2] = 0 THEN -qr[1] ELSE -qr[1] - 1

\* x * m with its fraction dropped (the integer conversion of setInt16)
TruncOfProduct(x, m) ==
    LET qr == MulDiv(Abs(x.n), m, x.d)
    IN  IF x.n >= 0 THEN qr[1] ELSE -qr[1]

\* an integer stored into 16 signed bits wraps modulo 2^16
ToInt16(t) == ((t + 32768) % 65536) - 32768

\* processAudioWithBeats: int16Buffer[i] = Math.floor(sample * 32767)
QuantizeServer(x) == ToInt16(FloorOfProduct(Clamp(x), 32767))

\* audioBufferToWav: sample < 0 ? sample * 0x8000 : sample * 0x7fff; setInt16
QuantizeWav(x) ==
    LET sample == Clamp(x)
    IN  ToInt16(IF RLt(sample, Num(0)) THEN TruncOfProduct(sample, 32768)
                ELSE TruncOfProduct(sample, 32767))

----------------------------------------------------------------------------
(* The mixers as a state machine.  pc is the position in the function:     *)
(* "copy" -> ("beat" -> ["duck" ->] "tick" [-> "tock"])* -> "beat"         *)
(*        -> "done" (server, after quantizing)                             *)
(*        -> "processed" -> "done" (browser, after the WAV export).        *)

\* null
Null == 0

\* the module as loaded: no instance, no initialization

EssentiaIdle ==
    /\ essentiaInstance = Null
    /\ essentiaPromise = Null
    /\ promises = <<>>
    /\ calls = <<>>
    /\ deleted = {}
    /\ cleanups = 0
    /\ pendingAtCleanup = {}
    /\ getAfterCleanup = FALSE

\* the visualizer as constructed
VisualizerIdle ==
    /\ isRunning = FALSE
    /\ beatInterval = Null
    /\ currentBpm = 120
    /\ timers = {}
    /\ timerCount = 0
    /\ updatePc = 0
    /\ updateArg = Null
    /\ updateLog = <<>>
    /\ updateOutcome = "none"
    /\ flashPc = "idle"
    /\ flashTimeouts = 0
    /\ stopped = FALSE
    /\ sentAfterStop = <<>>
    /\ apiCalls = 0
    /\ effectsDrawn = 0

\* useState(null)
NoScore == <<>>

\* the page before its first event; no page is mounted while pageKind is
\* "none"
PageIdle ==
    /\ pageKind = "none"
    /\ file = FALSE
    /\ analyzing = FALSE
    /\ processing = FALSE
    /\ message = ""
    /\ banificationScore = NoScore
    /\ processedAudio = Null
    /\ isPlaying = FALSE
    /\ audioControl = Null
    /\ analyzePc = "idle"
    /\ processPc = "idle"
    /\ stopTimeouts = 0
    /\ sources = {}
    /\ sourceCount = 0
    /\ processCount = 0
    /\ processOutcome = "none"
    /\ syncedSource = Null
    /\ clicks = 0

\* nothing of the application around the audio core has run
AppIdle == EssentiaIdle /\ VisualizerIdle /\ PageIdle

\* no generateBrainrotSong call is running
BrainrotIdle ==
    /\ audioBuffers = <<>>
    /\ allDownbeats = <<>>
    /\ heap = <<>>
    /\ slices = <<>>
    /\ extracted = <<>>
    /\ bpc = "idle"
    /\ songIndex = 0
    /\ shuffleIndex = 0
    /\ shuffleDraws = {}
    /\ countDraw = NaN
    /\ numSlices = 0
    /\ selectedSlices = <<>>
    /\ brainrotOutput = <<>>
    /\ currentPosition = 0
    /\ sliceIndex = 0
    /\ writeCount = <<>>
    /\ processedBuffer = <<>>

\* no stand-alone PCM16 conversion is running
QuantizerIdle ==
    /\ sampleValue = NaN
    /\ outputBuffer = <<>>
    /\ pcmBuffer = <<>>
    /\ qpc = "idle"

\* no beat-overlay mixer is running
MixerIdle ==
    /\ variant = "none"
    /\ sampleRate = 0
    /\ audioData = <<>>
    /\ beats = <<>>
    /\ tickSamples = <<>>
    /\ tockSamples = <<>>
    /\ outputData = <<>>
    /\ pc = "idle"
    /\ index = 0
    /\ samplePosition = NaN
    /\ halfBeatPosition = NaN
    /\ preDuck = <<>>
    /\ duckLog = {}
    /\ int16Buffer = <<>>
    /\ wavData = <<>>

Init ==
    /\ BrainrotIdle
    /\ QuantizerIdle
    /\ AppIdle
    /\ variant \in Variants
    /\ sampleRate \in SampleRates(variant)
    /\ audioData \in AudioChoices
    /\ beats \in BeatSequences
    /\ tickSamples \in TickChoices
    /\ tockSamples = TockChoice
    /\ outputData = [j \in DOMAIN audioData |-> Num(0)]
    /\ pc = "copy"
    /\ index = 0
    /\ samplePosition = NaN
    /\ halfBeatPosition = NaN
    /\ preDuck = [j \in DOMAIN audioData |-> Num(0)]
    /\ duckLog = {}
    /\ int16Buffer = <<>>
    /\ wavData = <<>>

\* copy the original audio at the base volume
CopyOriginal ==
    /\ pc = "copy"
    /\ outputData' = [j \in DOMAIN outputData |->
                        IF j < totalSamples
                        THEN RMul(audioData[j], BaseVolume(variant))
                        ELSE outputData[j]]
    /\ pc' = "beat"
    /\ UNCHANGED <<brainrotVars, quantizerVars, appVars>>
    /\ UNCHANGED <<variant, sampleRate, audioData, beats, tickSamples,
                   tockSamples, index, samplePosition, halfBeatPosition,
                   preDuck, duckLog, int16Buffer, wavData>>

\* entry of the forEach callback for beats[index]: the sample positions
BeginBeat ==
    /\ pc = "beat"
    /\ index < ALen(beats)
    /\ samplePosition' = SamplePosition(beats[index])
    /\ halfBeatPosition' = HalfBeatPosition(variant, beats, index)
    /\ pc' = IF variant \in Ducking THEN "duck" ELSE "tick"
    /\ UNCHANGED <<brainrotVars, quantizerVars, appVars>>
    /\ UNCHANGED <<variant, sampleRate, audioData, beats, tickSamples,
                   tockSamples, outputData, index, preDuck, duckLog,
                   int16Buffer, wavData>>

\* part_002: sidechain ducking from the beat on
ApplySidechain ==
    /\ pc = "duck"
    /\ variant = "duck"
    /\ LET st == DuckLoop002(outputData, samplePosition.n)
       IN  /\ outputData' = st.out
           /\ duckLog' = st.log
    /\ preDuck' = outputData
    /\ pc' = "tick"
    /\ UNCHANGED <<brainrotVars, quantizerVars, appVars>>
    /\ UNCHANGED <<variant, sampleRate, audioData, beats, tickSamples,
                   tockSamples, index, samplePosition, halfBeatPosition,
                   int16Buffer, wavData>>

\* audioProcessor.ts: ducking envelope around the kick
ApplyDucking ==
    /\ pc = "duck"
    /\ variant = "preduck"
    /\ LET duckStart == MathMax(Num(0), RSub(samplePosition, Num(attackSamples))).n
           duckEnd == MathMin(Num(totalSamples),
                              RAdd(samplePosition, Num(releaseSamples))).n
           st == DuckLoopPre(outputData, samplePosition.n, duckStart, duckEnd)
       IN  /\ outputData' = st.out
           /\ duckLog' = st.log
    /\ preDuck' = outputData
    /\ pc' = "tick"
    /\ UNCHANGED <<brainrotVars, quantizerVars, appVars>>
    /\ UNCHANGED <<variant, sampleRate, audioData, beats, tickSamples,
                   tockSamples, index, samplePosition, halfBeatPosition,
                   int16Buffer, wavData>>

\* add the tick / kick sound on the beat
AddTick ==
    /\ pc = "tick"
    /\ outputData' = OverlayLoop(outputData, tickSamples, samplePosition,
                                 TickGain(variant), 0)
    /\ IF HasTock(variant)
       THEN pc' = "tock" /\ index' = index
       ELSE pc' = "beat" /\ index' = index + 1
    /\ UNCHANGED <<brainrotVars, quantizerVars, appVars>>
    /\ UNCHANGED <<variant, sampleRate, audioData, beats, tickSamples,
                   tockSamples, samplePosition, halfBeatPosition, preDuck,
                   duckLog, int16Buffer, wavData>>

\* add the tock sound at the half beat
AddTock ==
    /\ pc = "tock"
    /\ outputData' = OverlayLoop(outputData, tockSamples, halfBeatPosition,
                                 TockGain, 0)
    /\ pc' = "beat"
    /\ index' = index + 1
    /\ UNCHANGED <<brainrotVars, quantizerVars, appVars>>
    /\ UNCHANGED <<variant, sampleRate, audioData, beats, tickSamples,
                   tockSamples, samplePosition, halfBeatPosition, preDuck,
                   duckLog, int16Buffer, wavData>>

\* processAudioWithBeats: convert to 16-bit PCM
ConvertToPCM16 ==
    /\ pc = "beat"
    /\ index = ALen(beats)
    /\ variant = "server"
    /\ int16Buffer' = [j \in DOMAIN outputData |-> QuantizeServer(outputData[j])]
    /\ pc' = "done"
    /\ UNCHANGED <<brainrotVars, quantizerVars, appVars>>
    /\ UNCHANGED <<variant, sampleRate, audioData, beats, tickSamples,
                   tockSamples, outputData, index, samplePosition,
                   halfBeatPosition, preDuck, duckLog, wavData>>

\* processAudioInBrowser returns the processed buffer
ReturnProcessed ==
    /\ pc = "beat"
    /\ index = ALen(beats)
    /\ variant # "server"
    /\ pc' = "processed"
    /\ UNCHANGED <<brainrotVars, quantizerVars, appVars>>
    /\ UNCHANGED <<variant, sampleRate, audioData, beats, tickSamples,
                   tockSamples, outputData, index, samplePosition,
                   halfBeatPosition, preDuck, duckLog, int16Buffer, wavData>>

\* audioBufferToWav on the processed buffer
AudioBufferToWav ==
    /\ pc = "processed"
    /\ wavData' = [j \in DOMAIN outputData |-> QuantizeWav(outputData[j])]
    /\ pc' = "done"
    /\ UNCHANGED <<brainrotVars, quantizerVars, appVars>>
    /\ UNCHANGED <<variant, sampleRate, audioData, beats, tickSamples,
                   tockSamples, outputData, index, samplePosition,
                   halfBeatPosition, preDuck, duckLog, int16Buffer>>

Next ==
    \/ CopyOriginal
    \/ BeginBeat
    \/ ApplySidechain
    \/ ApplyDucking
    \/ AddTick
    \/ AddTock
    \/ ConvertToPCM16
    \/ ReturnProcessed
    \/ AudioBufferToWav

Spec == Init /\ [][Next]_vars

----------------------------------------------------------------------------
(* Helpers of the properties. *)

NonDucking == {"server", "simple"}

\* the mixing loop has run over every beat
Mixed == (pc = "beat" /\ index = ALen(beats)) \/ pc \in {"processed", "done"}

InBuffer(position) == ~IsNaN(position) /\ position.n \in DOMAIN audioData

\* the sample of a percussion hit placed at `position` that lands on index j
HitAt(samples, position, j) ==
    IF ~IsNaN(position) /\ (j - position.n) \in DOMAIN samples
    THEN samples[j - position.n]
    ELSE Num(0)

\* sum of the hits of beats k .. last on index j, last beat first
RECURSIVE SumHits(_, _, _, _)
SumHits(samples, positions, j, k) ==
    IF k \notin DOMAIN positions THEN Num(0)
    ELSE RAdd(SumHits(samples, positions, j, k + 1),
              HitAt(samples, positions[k], j))

TickPositions == [i \in DOMAIN beats |-> SamplePosition(beats[i])]

TockPositions == [i \in DOMAIN beats |-> HalfBeatPosition(variant, beats, i)]

----------------------------------------------------------------------------
(* C1: with an empty beat sequence every mixer returns a buffer of the     *)
(* original's length holding original[i] * baseVolume, baseVolume being    *)
(* 0.5 in the server and simple mixers and 1.0 in the ducking mixers.      *)
C1_EmptyBeatsScaleOnly ==
    (ALen(beats) = 0 /\ pc # "copy") =>
        /\ DOMAIN outputData = DOMAIN audioData
        /\ \A j \in DOMAIN audioData :
              outputData[j] = RMul(audioData[j],
                                   IF variant \in NonDucking THEN R(1, 2) ELSE Num(1))

C1_Witness ==
    /\ ALen(beats) = 0
    /\ pc = "done"
    /\ variant = "duck"
    /\ ALen(audioData) = BufLen

(* C2: whatever the beat positions (negative, inside, at or past the end), *)
(* the output keeps exactly the indices 0 .. len(original)-1 and every     *)
(* element stays a number: writes outside the buffer are dropped.          *)
C2_WritesStayInBuffer ==
    /\ DOMAIN outputData = DOMAIN audioData
    /\ \A j \in DOMAIN outputData : ~IsNaN(outputData[j])
    /\ pc = "done" => \/ DOMAIN int16Buffer = DOMAIN audioData
                      \/ DOMAIN wavData = DOMAIN audioData

C2_Witness ==
    /\ Mixed
    /\ ALen(beats) = 2
    /\ SamplePosition(beats[0]).n < 0
    /\ SamplePosition(beats[1]).n >= totalSamples
    /\ ALen(tickSamples) = 3
    /\ variant = "duck"

(* C3: both quantizers clamp first: every 16-bit value lies in             *)
(* -32768 .. 32767, keeps the sign of the mixed sample, and a mixed sample *)
(* at or beyond full scale maps to the end of the range, never wrapping.   *)
C3_QuantizedInRange ==
    pc = "done" =>
        LET q == IF variant = "server" THEN int16Buffer ELSE wavData
            low == IF variant = "server" THEN -32767 ELSE -32768
        IN  \A j \in DOMAIN outputData :
              /\ q[j] \in -32768 .. 32767
              /\ RLe(Num(1), outputData[j]) => q[j] = 32767
              /\ RLe(outputData[j], Num(-1)) => q[j] = low
              /\ RLe(Num(0), outputData[j]) => q[j] >= 0
              /\ RLe(outputData[j], Num(0)) => q[j] <= 0

C3_Witness ==
    /\ pc = "done"
    /\ variant = "server"
    /\ \E j \in DOMAIN outputData : RLt(Num(1), outputData[j])
    /\ \E j \in DOMAIN outputData : RLt(outputData[j], Num(-1))

(* C4: in the server and simple mixers the overlay is additive: once every *)
(* beat is mixed, output[j] = 0.5 * original[j] + 0.4 * (sum of the tick   *)
(* samples landing on j) + 0.4 * (sum of the tock samples landing on j),   *)
(* the sums taken over the beats in any order (here last beat first).      *)
C4_OverlayIsAdditive ==
    (Mixed /\ variant \in NonDucking) =>
        \A j \in DOMAIN audioData :
            outputData[j] =
                RAdd(RAdd(RMul(R(1, 2), audioData[j]),
                          RMul(R(2, 5), SumHits(tickSamples, TickPositions, j, 0))),
                     RMul(R(2, 5), SumHits(tockSamples, TockPositions, j, 0)))

C4_Witness ==
    /\ Mixed
    /\ variant = "simple"
    /\ ALen(beats) = 2
    /\ TickPositions[0] = TickPositions[1]
    /\ InBuffer(TickPositions[0])
    /\ InBuffer(TockPositions[0])
    /\ InBuffer(TockPositions[1])

\* floor((t + |next - t| / 2) * sampleRate)
MidpointPosition(t, next) ==
    MathFloor(RMul(RAdd(t, RDiv(RAbs(RSub(next, t)), Num(2))), Num(sampleRate)))

(* C5: in the tick/tock mixers, for every beat that has a successor the    *)
(* tock position is floor((t_i + |t_(i+1) - t_i| / 2) * sampleRate), also  *)
(* when timestamps are 0.0 or repeat (stated for timestamps >= 0).         *)
C5_HalfBeatIsMidpoint ==
    (/\ pc \in {"tick", "tock"}
     /\ variant \in NonDucking
     /\ (index + 1) \in DOMAIN beats
     /\ RLe(Num(0), beats[index])) =>
        halfBeatPosition = MidpointPosition(beats[index], beats[index + 1])

(* C6: in the tick/tock mixers the last beat takes a virtual next beat at  *)
(* t + 0.5 s: its tock position is floor((t + 0.25) * sampleRate).         *)
C6_LastBeatFallback ==
    (pc \in {"tick", "tock"} /\ variant \in NonDucking /\ index = ALen(beats) - 1) =>
        halfBeatPosition = MathFloor(RMul(RAdd(beats[index], R(1, 4)), Num(sampleRate)))

----------------------------------------------------------------------------
(* Ducking. *)

sustainSamples == ALen(tickSamples)

\* 1.0 falling linearly to duckAmount over `over` samples, at step k
RampDown(k, over) ==
    RSub(Num(1), RMul(RSub(Num(1), duckAmount), RDiv(Num(k), Num(over))))

\* duckAmount rising linearly to 1.0 over `over` samples, at step k
RampUp(k, over) ==
    RAdd(duckAmount, RMul(RSub(Num(1), duckAmount), RDiv(Num(k), Num(over))))

\* attack from the trigger, sustain for the kick, release after it
ThreePhase(o) ==
    IF o < attackSamples THEN RampDown(o, attackSamples)
    ELSE IF o < sustainSamples THEN duckAmount
    ELSE RampUp(o - sustainSamples, releaseSamples)

Max(a, b) == IF a < b THEN b ELSE a

Min(a, b) == IF a < b THEN a ELSE b

\* attack before the trigger (from the clamped start of the window), then
\* held at duckAmount
AttackThenHold(j, p) ==
    IF j < p THEN RampDown(j - Max(0, p - attackSamples), attackSamples)
    ELSE duckAmount

\* the output indices each mixer ducks for a beat at sample position p
Window002(p) == Max(0, p) .. Min(totalSamples, p + sustainSamples + releaseSamples) - 1

WindowPre(p) == Max(0, p - attackSamples) .. Min(totalSamples, p + releaseSamples) - 1

Ducked == {e.idx : e \in duckLog} \cap DOMAIN outputData

(* C7: every gain the ducking envelopes apply lies in [duckAmount, 1.0].   *)
C7_GainInRange ==
    \A e \in duckLog : RLe(duckAmount, e.gain) /\ RLe(e.gain, Num(1))

C7_Witness ==
    /\ pc = "tick"
    /\ variant = "duck"
    /\ sustainSamples < attackSamples
    /\ InBuffer(samplePosition)
    /\ \E e \in duckLog : e.i < attackSamples /\ RLt(duckAmount, e.gain) /\ RLt(e.gain, Num(1))
    /\ \E e \in duckLog : e.i >= attackSamples /\ RLt(duckAmount, e.gain) /\ RLt(e.gain, Num(1))

(* C8 as stated: in every ducking mixer the gain at offset o >= 0 from the *)
(* trigger is the attack ramp for o < attackSamples, duckAmount up to the  *)
(* kick's length, and the release ramp after it (stated for beats at a     *)
(* sample position >= 0).                                                  *)
C8_ThreePhasesEverywhere ==
    (pc = "tick" /\ samplePosition.n >= 0) =>
        \A e \in duckLog :
            e.idx >= samplePosition.n => e.gain = ThreePhase(e.idx - samplePosition.n)

(* C8 amended: the part_002 mixer follows the three phases from the        *)
(* trigger on; the audioProcessor.ts mixer ramps down over the samples     *)
(* before the trigger, starting at 1.0 at the (clamped) start of its       *)
(* window, and holds duckAmount from the trigger to the end of the window, *)
(* without a release ramp.                                                 *)
C8_EnvelopePhases ==
    pc = "tick" =>
        \A e \in duckLog :
            /\ variant = "duck" =>
                  /\ e.idx = samplePosition.n + e.i
                  /\ e.gain = ThreePhase(e.i)
            /\ variant = "preduck" => e.gain = AttackThenHold(e.idx, samplePosition.n)

C8_Witness ==
    /\ pc = "tick"
    /\ variant = "duck"
    /\ \E e \in duckLog : e.i < attackSamples /\ e.gain = R(3, 5)
    /\ \E e \in duckLog : e.i >= attackSamples /\ e.i < sustainSamples
                          /\ e.gain = duckAmount
    /\ \E e \in duckLog : e.i = sustainSamples + releaseSamples - 1
                          /\ e.idx \in DOMAIN outputData
                          /\ RLt(duckAmount, e.gain) /\ RLt(e.gain, Num(1))

(* C9 as stated: the ducking step of a beat at p multiplies exactly the    *)
(* indices [max(0, p - attackSamples), min(len, p + sustainSamples +       *)
(* releaseSamples)) and leaves the others unchanged.                       *)
C9_WindowAsStated ==
    (pc = "tick" /\ variant \in Ducking) =>
        LET p == samplePosition.n
            W == Max(0, p - attackSamples) ..
                 Min(totalSamples, p + sustainSamples + releaseSamples) - 1
        IN  /\ Ducked = W
            /\ \A j \in DOMAIN outputData \ W : outputData[j] = preDuck[j]

(* C9 amended: the part_002 mixer multiplies exactly the indices           *)
(* [max(0, p), min(len, p + sustainSamples + releaseSamples)), the         *)
(* audioProcessor.ts mixer exactly [max(0, p - attackSamples),             *)
(* min(len, p + releaseSamples)), each by its envelope gain; every other   *)
(* index of the output is unchanged.                                       *)
C9_DuckWindow ==
    (pc = "tick" /\ variant \in Ducking) =>
        LET p == samplePosition.n
            W == IF variant = "duck" THEN Window002(p) ELSE WindowPre(p)
        IN  /\ Ducked = W
            /\ \A j \in DOMAIN outputData \ W : outputData[j] = preDuck[j]
            /\ \A j \in W : \E e \in duckLog :
                  e.idx = j /\ outputData[j] = RMul(preDuck[j], e.gain)
            /\ DOMAIN outputData = DOMAIN preDuck

C9_Witness ==
    /\ pc = "tick"
    /\ variant = "preduck"
    /\ 0 < samplePosition.n
    /\ samplePosition.n < attackSamples
    /\ samplePosition.n + releaseSamples < totalSamples
    /\ index = 1

\* gain of beat i's envelope on index j, 1.0 outside its window
BeatGain(i, j) ==
    LET p == TickPositions[i].n
    IN  IF variant = "duck"
        THEN IF j \in Window002(p) THEN ThreePhase(j - p) ELSE Num(1)
        ELSE IF j \in WindowPre(p) THEN AttackThenHold(j, p) ELSE Num(1)

RECURSIVE ProductOfGains(_, _)
ProductOfGains(j, k) ==
    IF k \notin DOMAIN beats THEN Num(1)
    ELSE RMul(BeatGain(k, j), ProductOfGains(j, k + 1))

(* C10: in the ducking mixers only the original is ducked: once every beat *)
(* is mixed, output[j] = original[j] * (product of the envelope gains of   *)
(* the beats whose window covers j) + kickGain * (sum of the kick samples  *)
(* landing on j) (stated for timestamps >= 0).                             *)
C10_OnlyOriginalDucked ==
    (Mixed /\ variant \in Ducking /\ \A i \in DOMAIN beats : RLe(Num(0), beats[i])) =>
        \A j \in DOMAIN audioData :
            outputData[j] =
                RAdd(RMul(audioData[j], ProductOfGains(j, 0)),
                     RMul(IF variant = "duck" THEN R(3, 5) ELSE R(1, 2),
                          SumHits(tickSamples, TickPositions, j, 0)))

----------------------------------------------------------------------------
(* generateBrainrotSong: bounds and inputs.                                *)

\* longest downbeat sequence drawn for a short track
MaxDownbeats == 3
\* length of a short track in seconds; its last possible downbeat
TrackSeconds == 3
\* slices of the track that offers fewer than 60 but more than 30 of them
MidSlices == 45
\* slices of the track that offers more than 60 of them
BigSlices == 61

\* values Math.random() returns, all in [0, 1): the least, the greatest
\* drawn, and inner ones that reach every index of a short shuffle
RandomValues == {Num(0), R(1, 3), R(1, 2), R(2, 3), R(999, 1000)}

\* a decoded track together with what the beat detector returns for it
Track(rate, data, downbeats) ==
    [sampleRate |-> rate, channelData |-> data, downbeats |-> downbeats]

\* samples that differ at every index
Ramp(len) == [j \in 0 .. len - 1 |-> R(j + 1, len + 1)]

\* samples of constant amplitude 1.0
Constant(len) == [j \in 0 .. len - 1 |-> Num(1)]

\* detected downbeats in seconds: gaps of 0.1, 0.2, 0.3, 0.5, 2.0, 2.5 ...
DownbeatTimes ==
    {Num(0), R(1, 5), R(3, 10), R(1, 2), R(5, 2), Num(TrackSeconds)}

DownbeatSequences ==
    {b \in UNION {[0 .. k - 1 -> DownbeatTimes] : k \in 0 .. MaxDownbeats} :
        \A i \in DOMAIN b : (i + 1) \in DOMAIN b => RLe(b[i], b[i + 1])}

\* short tracks at 10 Hz whose samples differ at every index
SmallTracks == {Track(10, Ramp(10 * TrackSeconds), b) : b \in DownbeatSequences}

\* short tracks at 10 Hz of constant amplitude 1.0
FlatTracks ==
    {Track(10, Constant(10 * TrackSeconds), b) : b \in DownbeatSequences}

\* first tracks: one at 10 Hz with one slice, one at 1000 Hz without a
\* usable beat pair
LeadTracks ==
    { Track(10, Ramp(10 * TrackSeconds), Arr(<<Num(0), R(1, 2)>>)),
      Track(1000, Constant(2), <<>>) }

\* one short track; a short track after a first track; a track of constant
\* amplitude after a 200 Hz first track without a usable beat pair
SmallSongs ==
    {Arr(<<a>>) : a \in SmallTracks}
        \cup {Arr(<<l, a>>) : l \in LeadTracks, a \in SmallTracks}
        \cup {Arr(<<Track(200, Constant(2), <<>>), a>>) : a \in FlatTracks}

\* a 4 Hz track whose first slice is empty; a 200 Hz track with slices of 40
\* and 50 samples; a 1000 Hz track followed by a 100 Hz track of constant
\* amplitude 1.0 with two slices of 100 samples
SpecialSongs ==
    { Arr(<<Track(4, Ramp(12), Arr(<<Num(0), R(1, 5), R(1, 2)>>))>>),
      Arr(<<Track(200, Ramp(90), Arr(<<Num(0), R(1, 5), R(9, 20)>>))>>),
      Arr(<<Track(1000, Constant(2), <<>>),
            Track(100, Constant(200), Arr(<<Num(0), Num(1), Num(2)>>))>>) }

\* a 4 Hz track with a downbeat every half second: n slices of 2 samples
BigTrack(n) == Track(4, Ramp(2 * n), [k \in 0 .. n |-> R(k, 2)])

BigSongs == {Arr(<<BigTrack(n)>>) : n \in {MidSlices, BigSlices}}

Songs == SmallSongs \cup SpecialSongs \cup BigSongs

----------------------------------------------------------------------------
(* generateBrainrotSong: memory.  heap maps an ArrayBuffer (its id) to its *)
(* contents; a Float32Array is a view [buf, off, len] onto one of them.    *)

View(buf, off, len) == [buf |-> buf, off |-> off, len |-> len]

\* view[i]
ViewGet(h, v, i) == IF i \in 0 .. v.len - 1 THEN h[v.buf][v.off + i] ELSE NaN

\* the elements of a view as an array
ViewData(h, v) == [i \in 0 .. v.len - 1 |-> h[v.buf][v.off + i]]

\* index argument of slice(): a negative one counts from the end, both are
\* clamped to the array
RelativeIndex(k, len) == IF k < 0 THEN Max(len + k, 0) ELSE Min(k, len)

\* subarray() would be a view onto the buffer of the source
Float32ArraySubarray(h, v, start, end, newBuf) ==
    LET k == RelativeIndex(start, v.len)
        final == RelativeIndex(end, v.len)
        count == Max(final - k, 0)
    IN  [view |-> View(v.buf, v.off + k, count), data |-> <<>>]

\* Float32Array.prototype.slice(start, end): a new array on a new buffer
\* newBuf holding the copied elements
Float32ArraySlice(h, v, start, end, newBuf) ==
    LET k == RelativeIndex(start, v.len)
        final == RelativeIndex(end, v.len)
        count == Max(final - k, 0)
    IN  [view |-> View(newBuf, 0, count),
         data |-> [i \in 0 .. count - 1 |-> h[v.buf][v.off + k + i]]]

----------------------------------------------------------------------------
(* generateBrainrotSong: the steps of the function.                        *)

minSliceDuration == R(1, 5)

maxSliceDuration == Num(2)

\* bounds taken as exclusive
KeptExclusive(downbeats) ==
    {i \in 0 .. ALen(downbeats) - 2 :
        LET duration == RSub(downbeats[i + 1], downbeats[i])
        IN  RLt(minSliceDuration, duration) /\ RLt(duration, maxSliceDuration)}

\* the beat pairs (i, i+1) of a track that pass the duration test
Kept(downbeats) ==
    {i \in 0 .. ALen(downbeats) - 2 :
        LET duration == RSub(downbeats[i + 1], downbeats[i])
        IN  RLe(minSliceDuration, duration) /\ RLe(duration, maxSliceDuration)}

\* the forEach callback for one track: heap and slices after its inner loop;
\* the k-th kept pair gets the k-th new buffer
ExtractFrom(h, sl, buffer, downbeats) ==
    LET kept == Kept(downbeats)
        made == Cardinality(kept)
        base == ALen(h)
        old == ALen(sl)
        Nth(k) == CHOOSE i \in kept : Cardinality({j \in kept : j < i}) = k
        Copy(k) ==
            LET i == Nth(k)
                startSample == MathFloor(RMul(downbeats[i], Num(buffer.sampleRate))).n
                endSample == MathFloor(RMul(downbeats[i + 1], Num(buffer.sampleRate))).n
            IN  Float32ArraySlice(h, buffer.channelData, startSample, endSample, base + k)
    IN  [heap |-> [b \in 0 .. base + made - 1 |->
                      IF b < base THEN h[b] ELSE Copy(b - base).data],
         slices |-> [k \in 0 .. old + made - 1 |->
                      IF k < old THEN sl[k]
                      ELSE LET i == Nth(k - old)
                           IN  [audioData |-> Copy(k - old).view,
                                startTime |-> downbeats[i],
                                duration |-> RSub(downbeats[i + 1], downbeats[i])]]]

\* Math.floor(Math.random() * n) for the drawn value r
RandomIndex(r, n) == MathFloor(RMul(r, Num(n))).n

\* an assignment instead of the destructuring swap
SwapOverwrite(arr, i, j) == [arr EXCEPT ![i] = arr[j]]

\* [arr[i], arr[j]] = [arr[j], arr[i]]
Swap(arr, i, j) == [arr EXCEPT ![i] = arr[j], ![j] = arr[i]]

\* the drawn count alone
SelectionCountDrawn(available, r) == RandomIndex(r, 30) + 30

\* Math.min(slices.length, Math.floor(Math.random() * 30) + 30)
SelectionCount(available, r) == Min(available, RandomIndex(r, 30) + 30)

\* Array.prototype.slice(0, n)
ArraySlice(arr, n) == [k \in 0 .. Min(n, ALen(arr)) - 1 |-> arr[k]]

\* totalSamples after the first k selected slices were added up
RECURSIVE TotalLength(_, _)
TotalLength(sel, k) ==
    IF k = 0 THEN 0 ELSE TotalLength(sel, k - 1) + sel[k - 1].audioData.len

crossfadeSamples == MathFloor(RMul(R(1, 100), Num(audioBuffers[0].sampleRate))).n

\* a fade-in that starts one step up
CompositeSampleFadeInFromOne(v, i, len, cf) ==
    LET fadedIn == IF i < cf THEN RMul(v, R(i + 1, cf)) ELSE v
    IN  IF i > len - cf THEN RMul(fadedIn, R(len - i, cf)) ELSE fadedIn

\* the fade-out left out
CompositeSampleNoFadeOut(v, i, len, cf) ==
    IF i < cf THEN RMul(v, R(i, cf)) ELSE v

\* one sample of a slice after the fade-in and the fade-out
CompositeSample(v, i, len, cf) ==
    LET fadedIn == IF i < cf THEN RMul(v, R(i, cf)) ELSE v
    IN  IF i > len - cf THEN RMul(fadedIn, R(len - i, cf)) ELSE fadedIn

\* the cursor moved by one sample too few
AdvanceShort(position, len) == position + Max(len - 1, 0)

\* currentPosition += sliceData.length
Advance(position, len) == position + len

----------------------------------------------------------------------------
(* generateBrainrotSong: the state machine.  bpc follows the function:     *)
(* "extract" (once per track) -> "shuffle" (once per loop turn) ->         *)
(* "composite" (once per selected slice) -> "done" or "failed".            *)
(* The state starts after the analysis loop: allDownbeats holds what the   *)
(* detector returned for each track.  The draws of the shuffle are free    *)
(* for the short songs; a long song is shuffled with one fixed draw.       *)

BrainrotInit ==
    /\ MixerIdle
    /\ QuantizerIdle
    /\ AppIdle
    /\ \E song \in Songs :
        /\ heap = [t \in DOMAIN song |-> song[t].channelData]
        /\ audioBuffers = [t \in DOMAIN song |->
                              [sampleRate |-> song[t].sampleRate,
                               channelData |-> View(t, 0, ALen(song[t].channelData))]]
        /\ allDownbeats = [t \in DOMAIN song |->
                              [buffer |-> t, downbeats |-> song[t].downbeats]]
        /\ shuffleDraws \in (IF song \in BigSongs
                             THEN {{Num(0)}, {R(999, 1000)}}
                             ELSE {RandomValues})
    /\ slices = <<>>
    /\ extracted = <<>>
    /\ bpc = "extract"
    /\ songIndex = 0
    /\ shuffleIndex = 0
    /\ countDraw = NaN
    /\ numSlices = 0
    /\ selectedSlices = <<>>
    /\ brainrotOutput = <<>>
    /\ currentPosition = 0
    /\ sliceIndex = 0
    /\ writeCount = <<>>
    /\ processedBuffer = <<>>

\* allDownbeats.forEach callback; after the last track the shuffle loop starts
ExtractSlices ==
    /\ bpc = "extract"
    /\ songIndex < ALen(allDownbeats)
    /\ LET entry == allDownbeats[songIndex]
           got == ExtractFrom(heap, slices, audioBuffers[entry.buffer], entry.downbeats)
           last == songIndex + 1 = ALen(allDownbeats)
       IN  /\ heap' = got.heap
           /\ slices' = got.slices
           /\ songIndex' = songIndex + 1
           /\ bpc' = IF last THEN "shuffle" ELSE "extract"
           /\ extracted' = IF last THEN got.slices ELSE extracted
           /\ shuffleIndex' = IF last THEN ALen(got.slices) - 1 ELSE shuffleIndex
    /\ UNCHANGED <<mixerVars, quantizerVars, appVars>>
    /\ UNCHANGED <<audioBuffers, allDownbeats, shuffleDraws, countDraw,
                   numSlices, selectedSlices, brainrotOutput, currentPosition,
                   sliceIndex, writeCount, processedBuffer>>

\* one turn of the Fisher-Yates loop
ShuffleStep ==
    /\ bpc = "shuffle"
    /\ shuffleIndex > 0
    /\ \E r \in shuffleDraws :
        slices' = Swap(slices, shuffleIndex, RandomIndex(r, shuffleIndex + 1))
    /\ shuffleIndex' = shuffleIndex - 1
    /\ UNCHANGED <<mixerVars, quantizerVars, appVars>>
    /\ UNCHANGED <<audioBuffers, allDownbeats, heap, extracted, bpc, songIndex,
                   shuffleDraws, countDraw, numSlices, selectedSlices,
                   brainrotOutput, currentPosition, sliceIndex, writeCount,
                   processedBuffer>>

\* the shuffle loop is over: draw the count, take the subset, add up the
\* lengths and allocate outputData
SelectSlices ==
    /\ bpc = "shuffle"
    /\ shuffleIndex <= 0
    /\ \E r \in RandomValues :
        LET count == SelectionCount(ALen(slices), r)
            selected == ArraySlice(slices, count)
            total == TotalLength(selected, ALen(selected))
            newBuf == ALen(heap)
        IN  /\ countDraw' = r
            /\ numSlices' = count
            /\ selectedSlices' = selected
            /\ heap' = [b \in 0 .. newBuf |->
                           IF b < newBuf THEN heap[b]
                           ELSE [j \in 0 .. total - 1 |-> Num(0)]]
            /\ brainrotOutput' = View(newBuf, 0, total)
            /\ writeCount' = [j \in 0 .. total - 1 |-> 0]
    /\ currentPosition' = 0
    /\ sliceIndex' = 0
    /\ bpc' = "composite"
    /\ UNCHANGED <<mixerVars, quantizerVars, appVars>>
    /\ UNCHANGED <<audioBuffers, allDownbeats, slices, extracted, songIndex,
                   shuffleIndex, shuffleDraws, processedBuffer>>

\* selectedSlices.forEach callback: one slice is written at the cursor
CompositeSlice ==
    /\ bpc = "composite"
    /\ sliceIndex < ALen(selectedSlices)
    /\ LET sliceData == selectedSlices[sliceIndex].audioData
           w == [j \in currentPosition .. currentPosition + sliceData.len - 1 |->
                    CompositeSample(ViewGet(heap, sliceData, j - currentPosition),
                                    j - currentPosition, sliceData.len,
                                    crossfadeSamples)]
       IN  /\ heap' = [heap EXCEPT ![brainrotOutput.buf] = TypedArrayStore(@, w)]
           /\ writeCount' = [j \in DOMAIN writeCount |->
                                writeCount[j] + (IF j \in DOMAIN w THEN 1 ELSE 0)]
           /\ currentPosition' = Advance(currentPosition, sliceData.len)
    /\ sliceIndex' = sliceIndex + 1
    /\ UNCHANGED <<mixerVars, quantizerVars, appVars>>
    /\ UNCHANGED <<audioBuffers, allDownbeats, slices, extracted, bpc, songIndex,
                   shuffleIndex, shuffleDraws, countDraw, numSlices,
                   selectedSlices, brainrotOutput, processedBuffer>>

\* createBuffer and copyToChannel; createBuffer throws NotSupportedError for
\* a length of zero frames
CreateBuffer ==
    /\ bpc = "composite"
    /\ sliceIndex = ALen(selectedSlices)
    /\ IF brainrotOutput.len = 0
       THEN /\ bpc' = "failed"
            /\ UNCHANGED <<heap, processedBuffer>>
       ELSE LET newBuf == ALen(heap)
            IN  /\ bpc' = "done"
                /\ heap' = [b \in 0 .. newBuf |->
                               IF b < newBuf THEN heap[b]
                               ELSE ViewData(heap, brainrotOutput)]
                /\ processedBuffer' = View(newBuf, 0, brainrotOutput.len)
    /\ UNCHANGED <<mixerVars, quantizerVars, appVars>>
    /\ UNCHANGED <<audioBuffers, allDownbeats, slices, extracted, songIndex,
                   shuffleIndex, shuffleDraws, countDraw, numSlices,
                   selectedSlices, brainrotOutput, currentPosition, sliceIndex,
                   writeCount>>

BrainrotNext ==
    \/ ExtractSlices
    \/ ShuffleStep
    \/ SelectSlices
    \/ CompositeSlice
    \/ CreateBuffer

BrainrotSpec == BrainrotInit /\ [][BrainrotNext]_vars

----------------------------------------------------------------------------
(* The core as a whole: a run is one beat-overlay mixer call or one        *)
(* generateBrainrotSong call.                                              *)

CoreInit == Init \/ BrainrotInit

CoreNext == Next \/ BrainrotNext

CoreSpec == CoreInit /\ [][CoreNext]_vars

----------------------------------------------------------------------------
(* Properties of generateBrainrotSong. *)

\* the ArrayBuffers of the decoded tracks
TrackBuffers == {audioBuffers[t].channelData.buf : t \in DOMAIN audioBuffers}

\* every slice has a buffer of its own: none of a track, not the output's,
\* not that of another slice
SlicesIndependent ==
    \A k \in DOMAIN slices :
        /\ slices[k].audioData.buf \notin TrackBuffers
        /\ brainrotOutput # <<>> => slices[k].audioData.buf # brainrotOutput.buf
        /\ \A m \in DOMAIN slices :
              m # k => slices[m].audioData.buf # slices[k].audioData.buf

(* C11: no step of a mixer changes the original samples, the percussion    *)
(* samples or the beat array; no step of generateBrainrotSong changes a    *)
(* track's sample buffer or beat array; every extracted slice lives in a   *)
(* buffer of its own, so a write to the output buffer reaches no source.   *)
C11_InputsNeverMutated ==
    [][ /\ audioData' = audioData
        /\ tickSamples' = tickSamples
        /\ tockSamples' = tockSamples
        /\ beats' = beats
        /\ audioBuffers' = audioBuffers
        /\ allDownbeats' = allDownbeats
        /\ \A b \in TrackBuffers : heap'[b] = heap[b]
        /\ SlicesIndependent' ]_vars

\* a song came out that holds slices of two tracks
C11_Witness ==
    /\ bpc = "done"
    /\ ALen(audioBuffers) = 2
    /\ audioBuffers[0].sampleRate = 10
    /\ \E k, m \in DOMAIN selectedSlices :
          /\ ViewData(heap, selectedSlices[k].audioData)
                = [i \in 0 .. 4 |-> heap[0][i]]
          /\ ViewData(heap, selectedSlices[m].audioData)
                = [i \in 0 .. 1 |-> heap[1][i]]
    /\ \E j \in DOMAIN heap[brainrotOutput.buf] :
          heap[brainrotOutput.buf][j].n # 0

\* the beat pair (i, i+1) of track t lasts between 0.2 s and 2.0 s
Qualifies(t, i) ==
    LET b == allDownbeats[t].downbeats
    IN  /\ i \in DOMAIN b
        /\ (i + 1) \in DOMAIN b
        /\ RLe(R(2, 10), RSub(b[i + 1], b[i]))
        /\ RLe(RSub(b[i + 1], b[i]), Num(2))

QualifyingPairs ==
    {p \in UNION {{<<t, i>> : i \in DOMAIN allDownbeats[t].downbeats} :
                     t \in DOMAIN allDownbeats} : Qualifies(p[1], p[2])}

\* place of a qualifying pair: track order, then beat order
PlaceOf(p) ==
    Cardinality({q \in QualifyingPairs :
                    q[1] < p[1] \/ (q[1] = p[1] /\ q[2] < p[2])})

\* the samples [floor(b_i * sampleRate), floor(b_(i+1) * sampleRate)) of track t
RangeOf(t, i) ==
    LET b == allDownbeats[t].downbeats
        rate == audioBuffers[t].sampleRate
        from == (b[i].n * rate) \div b[i].d
        to == (b[i + 1].n * rate) \div b[i + 1].d
    IN  [k \in 0 .. to - from - 1 |-> heap[audioBuffers[t].channelData.buf][from + k]]

(* C12: when the last track is processed, the extracted slices are exactly *)
(* one per consecutive beat pair with 0.2 <= b_(i+1) - b_i <= 2.0, and the *)
(* slice of such a pair holds the samples                                  *)
(* [floor(b_i * sampleRate), floor(b_(i+1) * sampleRate)) of its track, in *)
(* their order; a track with fewer than two beats adds none.               *)
C12_SlicePerQualifyingPair ==
    bpc = "shuffle" /\ shuffleIndex = ALen(slices) - 1 =>
        /\ ALen(slices) = Cardinality(QualifyingPairs)
        /\ \A p \in QualifyingPairs :
              LET s == slices[PlaceOf(p)]
                  b == allDownbeats[p[1]].downbeats
              IN  /\ ViewData(heap, s.audioData) = RangeOf(p[1], p[2])
                  /\ s.startTime = b[p[2]]
                  /\ s.duration = RSub(b[p[2] + 1], b[p[2]])

\* beats [0.0, 0.5, last] with last - 0.5 > 2.0: only [0.0, 0.5] is kept,
\* as the first five samples at 10 Hz
C12_Witness ==
    /\ bpc = "shuffle"
    /\ ALen(allDownbeats) = 1
    /\ allDownbeats[0].downbeats = Arr(<<Num(0), R(1, 2), Num(TrackSeconds)>>)
    /\ ALen(extracted) = 1
    /\ extracted[0].startTime = Num(0)
    /\ extracted[0].duration = R(1, 2)
    /\ ViewData(heap, extracted[0].audioData) = [k \in 0 .. 4 |-> heap[0][k]]

\* the selection has been made
Selected == bpc \in {"composite", "done", "failed"}

(* C13: whatever was extracted and whatever Math.random() returned, the    *)
(* number of selected slices is at most the number available and at least  *)
(* min(available, 30).                                                     *)
C13_CountWithinAvailable ==
    Selected =>
        /\ ALen(selectedSlices) = numSlices
        /\ numSlices <= ALen(slices)
        /\ numSlices >= Min(ALen(slices), 30)

\* more than 30 slices were available and the draw took more than 30 of
\* them, but not all
C13_Witness ==
    /\ bpc = "done"
    /\ numSlices > 30
    /\ numSlices < ALen(slices)
    /\ ALen(selectedSlices) = numSlices

(* C14: the count is min(available, drawn) with drawn uniform over the 31  *)
(* values 30 .. 60, so the greatest value Math.random() returns selects 60 *)
(* slices when 60 are available.                                           *)
C14_CountUpToSixty ==
    Selected =>
        numSlices = Min(ALen(slices), ((countDraw.n * 31) \div countDraw.d) + 30)

\* number of places of arr that hold x
Occurrences(arr, x) == Cardinality({m \in DOMAIN arr : arr[m] = x})

(* C15: at every turn of the shuffle and ever after, slices holds exactly  *)
(* the extracted slices, each as often as it was extracted (once); the     *)
(* selection is the first numSlices of them, so no extracted slice is      *)
(* selected twice.                                                         *)
C15_PermutationAndPrefix ==
    /\ bpc \in {"shuffle", "composite", "done", "failed"} =>
          /\ ALen(slices) = ALen(extracted)
          /\ \A k \in DOMAIN extracted :
                /\ Occurrences(extracted, extracted[k]) = 1
                /\ Occurrences(slices, extracted[k]) = 1
    /\ Selected =>
          /\ \A k \in DOMAIN selectedSlices : selectedSlices[k] = slices[k]
          /\ \A k \in DOMAIN extracted :
                Occurrences(selectedSlices, extracted[k]) <= 1

\* three slices came out of the shuffle in another order and all were taken
C15_Witness ==
    /\ bpc = "done"
    /\ ALen(extracted) = 3
    /\ slices[0] = extracted[2]
    /\ slices[2] = extracted[1]
    /\ numSlices = 3

\* lengths of the selected slices before slice k, added up
RECURSIVE LengthsBefore(_)
LengthsBefore(k) ==
    IF k = 0 THEN 0
    ELSE LengthsBefore(k - 1) + selectedSlices[k - 1].audioData.len

\* samples of the output buffer
Output == heap[brainrotOutput.buf]

(* C16: the output buffer is as long as the selected slices together; when *)
(* k slices are written the cursor stands at the sum of their lengths and  *)
(* exactly the indices below it have been written, each once: slice k      *)
(* fills [sum before k, sum before k + its length) with no gap and no      *)
(* overlap; an empty selection gives an empty buffer.                      *)
C16_ContiguousPlacement ==
    Selected =>
        /\ brainrotOutput.len = LengthsBefore(ALen(selectedSlices))
        /\ ALen(Output) = brainrotOutput.len
        /\ DOMAIN writeCount = DOMAIN Output
        /\ currentPosition = LengthsBefore(sliceIndex)
        /\ \A j \in DOMAIN writeCount :
              writeCount[j] = IF j < currentPosition THEN 1 ELSE 0
        /\ bpc \in {"done", "failed"} => sliceIndex = ALen(selectedSlices)

\* an empty slice was composited before a slice of two samples
C16_Witness ==
    /\ bpc = "done"
    /\ ALen(selectedSlices) = 2
    /\ selectedSlices[0].audioData.len = 0
    /\ selectedSlices[1].audioData.len = 2
    /\ \A j \in DOMAIN writeCount : writeCount[j] = 1

\* selected slices of constant amplitude 1.0, at least 2 * crossfadeSamples
\* long, with a crossfade of at least one sample
FlatSlices ==
    {k \in DOMAIN selectedSlices :
        /\ crossfadeSamples >= 1
        /\ selectedSlices[k].audioData.len >= 2 * crossfadeSamples
        /\ \A i \in 0 .. selectedSlices[k].audioData.len - 1 :
              ViewGet(heap, selectedSlices[k].audioData, i) = Num(1)}

(* C17 as claimed: in the finished output the first and the last sample of *)
(* every such slice have amplitude 1 / crossfadeSamples, and the output is *)
(* as long as the slices together.                                         *)
C17_EdgesAtOneStep ==
    bpc = "done" =>
        /\ brainrotOutput.len = LengthsBefore(ALen(selectedSlices))
        /\ \A k \in FlatSlices :
              LET from == LengthsBefore(k)
                  len == selectedSlices[k].audioData.len
              IN  /\ Output[from] = R(1, crossfadeSamples)
                  /\ Output[from + len - 1] = R(1, crossfadeSamples)

(* C17: in the finished output the first sample of every such slice has    *)
(* amplitude 0, its last sample has amplitude 1 / crossfadeSamples, and    *)
(* the output is as long as the slices together.                           *)
C17_FadeEdges ==
    bpc = "done" =>
        /\ brainrotOutput.len = LengthsBefore(ALen(selectedSlices))
        /\ \A k \in FlatSlices :
              LET from == LengthsBefore(k)
                  len == selectedSlices[k].audioData.len
              IN  /\ Output[from] = Num(0)
                  /\ Output[from + len - 1] = R(1, crossfadeSamples)

\* two slices of 100 samples of amplitude 1.0, crossfadeSamples = 10
C17_Witness ==
    /\ bpc = "done"
    /\ crossfadeSamples = 10
    /\ FlatSlices = {0, 1}
    /\ selectedSlices[0].audioData.len = 100
    /\ selectedSlices[1].audioData.len = 100
    /\ brainrotOutput.len = 200
    /\ Output[0] = Num(0)
    /\ Output[1] = R(1, 10)
    /\ Output[99] = R(1, 10)
    /\ Output[100] = Num(0)
    /\ Output[199] = R(1, 10)

\* i / crossfadeSamples over the first crossfadeSamples samples, 1 elsewhere
fadeIn(i) == IF i < crossfadeSamples THEN R(i, crossfadeSamples) ELSE Num(1)

\* (L - i) / crossfadeSamples over the last crossfadeSamples samples of a
\* slice of length L, 1 elsewhere
fadeOut(i, L) ==
    IF i >= L - crossfadeSamples THEN R(L - i, crossfadeSamples) ELSE Num(1)

(* C18: every sample already composited equals                             *)
(* slice[i] * fadeIn(i) * fadeOut(i), both factors at once where the slice *)
(* is shorter than 2 * crossfadeSamples, and the combined gain lies in     *)
(* [0, 1].                                                                 *)
C18_SampleIsFadedSlice ==
    Selected =>
        \A k \in 0 .. sliceIndex - 1 :
            LET sliceData == selectedSlices[k].audioData
                L == sliceData.len
            IN  \A i \in 0 .. L - 1 :
                    LET gain == RMul(fadeIn(i), fadeOut(i, L))
                    IN  /\ Output[LengthsBefore(k) + i]
                              = RMul(ViewGet(heap, sliceData, i), gain)
                        /\ RLe(Num(0), gain)
                        /\ RLe(gain, Num(1))

\* a slice of five samples under a crossfade of ten: its third sample took
\* the fade-in 2/10 and the fade-out 3/10
C18_Witness ==
    /\ bpc = "done"
    /\ crossfadeSamples = 10
    /\ \E k \in DOMAIN selectedSlices :
          /\ selectedSlices[k].audioData.len = 5
          /\ ViewGet(heap, selectedSlices[k].audioData, 2).n # 0
          /\ Output[LengthsBefore(k) + 2]
                = RMul(ViewGet(heap, selectedSlices[k].audioData, 2), R(6, 100))

----------------------------------------------------------------------------
(* The PCM16 conversion of processAudioWithBeats on its Float32Array.      *)
(* A number written to outputBuffer is rounded to the nearest Float32; the *)
(* conversion reads the stored value back as a double and multiplies it by *)
(* 32767, which is exact for a 24-bit significand.                         *)

\* how many neighbours of each end of the 16-bit range are drawn
QSpan == 8

RECURSIVE Pow2(_)
Pow2(k) == IF k = 0 THEN 1 ELSE 2 * Pow2(k - 1)

\* binary exponent e of the positive rational a/d: 2^e <= a/d < 2^(e+1)
RECURSIVE Exponent(_, _)
Exponent(a, d) ==
    IF a >= d
    THEN IF a >= 2 * d THEN Exponent(a, 2 * d) + 1 ELSE 0
    ELSE Exponent(2 * a, d) - 1

\* Math.fround: the nearest Float32 (24-bit significand, ties to even) of a
\* number whose magnitude is 0 or lies in [2^-6, 2^24)
Fround(x) ==
    IF IsNaN(x) \/ x.n = 0 THEN x
    ELSE LET a == Abs(x.n)
             scale == Pow2(23 - Exponent(a, x.d))
             qr == MulDiv(a, scale, x.d)
             up == 2 * qr[2] > x.d \/ (2 * qr[2] = x.d /\ qr[1] % 2 = 1)
             m == IF up THEN qr[1] + 1 ELSE qr[1]
         IN  R(IF x.n < 0 THEN -m ELSE m, scale)

\* 16-bit sample values of an earlier conversion: zero and both ends of
\* each half of the range the arithmetic of the model can hold
QValues ==
    {0} \cup UNION {{q, -q} : q \in (512 .. 512 + QSpan)
                                       \cup (32767 - QSpan .. 32767)}

\* numbers the mixing loop writes: renormalized 16-bit values q / 32767,
\* and a half, a third, full scale and beyond
SampleValues ==
    {R(q, 32767) : q \in QValues}
        \cup {R(1, 2), R(-1, 2), R(1, 3), R(-1, 3), R(3, 2), R(-3, 2)}

QuantizerInit ==
    /\ MixerIdle
    /\ BrainrotIdle
    /\ AppIdle
    /\ sampleValue \in SampleValues
    /\ outputBuffer = [j \in 0 .. 1 |-> Num(0)]
    /\ pcmBuffer = <<>>
    /\ qpc = "store"

\* outputBuffer[0] = x and outputBuffer[1] = -x: stores to a Float32Array
StoreSamples ==
    /\ qpc = "store"
    /\ outputBuffer' = [j \in 0 .. 1 |->
                           Fround(IF j = 0 THEN sampleValue ELSE RNeg(sampleValue))]
    /\ qpc' = "convert"
    /\ UNCHANGED <<mixerVars, brainrotVars, appVars, sampleValue, pcmBuffer>>

\* the conversion loop over the whole buffer
ConvertBuffer ==
    /\ qpc = "convert"
    /\ pcmBuffer' = [j \in DOMAIN outputBuffer |-> QuantizeServer(outputBuffer[j])]
    /\ qpc' = "done"
    /\ UNCHANGED <<mixerVars, brainrotVars, appVars, sampleValue, outputBuffer>>

QuantizerNext ==
    \/ StoreSamples
    \/ ConvertBuffer

QuantizerSpec == QuantizerInit /\ [][QuantizerNext]_vars

(* C19: the conversion truncates x * 32767 toward zero for either sign, so *)
(* the value of -x is the negative of the value of x.                      *)
C19_TruncatesTowardZero ==
    qpc = "done" =>
        /\ \A j \in DOMAIN pcmBuffer :
              pcmBuffer[j] = TruncOfProduct(Clamp(outputBuffer[j]), 32767)
        /\ pcmBuffer[1] = -pcmBuffer[0]

(* C20: converting the stored renormalized value q / 32767 of an integer q *)
(* in [-32767, 32767] gives q again.                                       *)
C20_RepresentableValuesStable ==
    qpc = "done" /\ 32767 % sampleValue.d = 0 /\ Abs(sampleValue.n) <= sampleValue.d =>
        pcmBuffer[0] = sampleValue.n * (32767 \div sampleValue.d)

----------------------------------------------------------------------------
(* The Essentia singleton (src/app/essentiaInstance.ts).                   *)
(*                                                                         *)
(* promises[p] is the promise made by the p-th run of the initialization   *)
(* body, with its state and, once fulfilled, the instance it created; the  *)
(* instance created by run p is numbered p.  calls[k] is the k-th call of  *)
(* getEssentiaInstance: what the async function returned (the instance     *)
(* held at that time, or the promise it follows) and what its caller has   *)
(* received so far.  A caller receives in a later job than the one that    *)
(* settled its promise, so other code may run in between.                  *)

\* calls of getEssentiaInstance drawn
MaxCalls == 3
\* calls of cleanupEssentia drawn
MaxCleanups == 2

\* `if (essentiaPromise) return essentiaPromise`, without the test
ReturnsCachedPromiseNever(promise) == FALSE

\* `if (essentiaPromise) return essentiaPromise`
ReturnsCachedPromise(promise) == promise # Null

\* the record of a call of getEssentiaInstance when it returns
NewCall(instance, promise) ==
    [instance |-> instance, promise |-> promise, state |-> "pending",
     value |-> Null, deletedOnReceipt |-> FALSE,
     joinedSettled |-> IF promise = Null THEN "none"
                       ELSE IF promise > Len(promises) THEN "pending"
                       ELSE promises[promise].state,
     cleanupsBefore |-> cleanups]

\* getEssentiaInstance(), up to its return
GetEssentiaInstance ==
    /\ Len(calls) < MaxCalls
    /\ IF essentiaInstance # Null
          THEN /\ calls' = Append(calls, NewCall(essentiaInstance, Null))
               /\ UNCHANGED <<essentiaPromise, promises>>
          ELSE IF ReturnsCachedPromise(essentiaPromise)
          THEN /\ calls' = Append(calls, NewCall(Null, essentiaPromise))
               /\ UNCHANGED <<essentiaPromise, promises>>
          ELSE /\ promises' = Append(promises, [state |-> "pending", value |-> Null])
               /\ essentiaPromise' = Len(promises) + 1
               /\ calls' = Append(calls, NewCall(Null, Len(promises) + 1))
    /\ getAfterCleanup' = TRUE
    /\ UNCHANGED <<essentiaInstance, deleted, cleanups, pendingAtCleanup>>
    /\ UNCHANGED <<coreVars, visualizerVars, pageVars>>

\* the initialization body runs to its end: the imports and the WASM
\* module loaded, the instance is created and stored
InitSucceeds(p) ==
    /\ promises[p].state = "pending"
    /\ essentiaInstance' = p
    /\ promises' = [promises EXCEPT ![p] = [state |-> "fulfilled", value |-> p]]
    /\ UNCHANGED <<essentiaPromise, calls, deleted, cleanups, pendingAtCleanup,
                   getAfterCleanup>>
    /\ UNCHANGED <<coreVars, visualizerVars, pageVars>>

\* an import or the WASM loader rejects: the body throws
InitFails(p) ==
    /\ promises[p].state = "pending"
    /\ promises' = [promises EXCEPT ![p] = [state |-> "rejected", value |-> Null]]
    /\ UNCHANGED <<essentiaInstance, essentiaPromise, calls, deleted, cleanups,
                   pendingAtCleanup, getAfterCleanup>>
    /\ UNCHANGED <<coreVars, visualizerVars, pageVars>>

\* the caller's `await getEssentiaInstance()` resumes
Receive(k) ==
    /\ calls[k].state = "pending"
    /\ IF calls[k].promise = Null
          THEN calls' = [calls EXCEPT ![k].state = "resolved",
                                      ![k].value = calls[k].instance,
                                      ![k].deletedOnReceipt = calls[k].instance \in deleted]
          ELSE /\ promises[calls[k].promise].state # "pending"
               /\ IF promises[calls[k].promise].state = "fulfilled"
                     THEN calls' = [calls EXCEPT
                              ![k].state = "resolved",
                              ![k].value = promises[calls[k].promise].value,
                              ![k].deletedOnReceipt =
                                  promises[calls[k].promise].value \in deleted]
                     ELSE calls' = [calls EXCEPT ![k].state = "rejected"]
    /\ UNCHANGED <<essentiaInstance, essentiaPromise, promises, deleted, cleanups,
                   pendingAtCleanup, getAfterCleanup>>
    /\ UNCHANGED <<coreVars, visualizerVars, pageVars>>

\* cleanupEssentia()
CleanupEssentia ==
    /\ cleanups < MaxCleanups
    /\ cleanups' = cleanups + 1
    /\ pendingAtCleanup' = {p \in DOMAIN promises : promises[p].state = "pending"}
    /\ getAfterCleanup' = FALSE
    /\ IF essentiaInstance # Null
          THEN /\ deleted' = deleted \cup {essentiaInstance}
               /\ essentiaInstance' = Null
               /\ essentiaPromise' = Null
          ELSE UNCHANGED <<deleted, essentiaInstance, essentiaPromise>>
    /\ UNCHANGED <<promises, calls>>
    /\ UNCHANGED <<coreVars, visualizerVars, pageVars>>

EssentiaInit ==
    /\ MixerIdle
    /\ BrainrotIdle
    /\ QuantizerIdle
    /\ AppIdle

EssentiaNext ==
    \/ GetEssentiaInstance
    \/ \E p \in DOMAIN promises : InitSucceeds(p)
    \/ \E p \in DOMAIN promises : InitFails(p)
    \/ \E k \in DOMAIN calls : Receive(k)
    \/ CleanupEssentia

EssentiaSpec == EssentiaInit /\ [][EssentiaNext]_vars

\* the calls whose caller has received an instance
Resolved == {k \in DOMAIN calls : calls[k].state = "resolved"}

(* C21: as long as cleanupEssentia has not been called, the initialization *)
(* body has run at most once and every call that has resolved, whether it  *)
(* was made before, during or after the initialization, resolved to the    *)
(* one instance the module holds.                                          *)
C21_OneInitializationOneInstance ==
    cleanups = 0 =>
        /\ Len(promises) <= 1
        /\ \A k \in Resolved : calls[k].value = essentiaInstance /\ calls[k].value # Null

\* three calls resolved without a cleanup: the first started the
\* initialization, the second joined it while it was pending, the third
\* came after the instance was stored
C21_Witness ==
    /\ cleanups = 0
    /\ Len(calls) = 3
    /\ Resolved = {1, 2, 3}
    /\ calls[2].joinedSettled = "pending"
    /\ calls[3].promise = Null

(* C22: a generateBrainrotSong call whose tracks have different sample     *)
(* rates ends in an error outcome and produces no output buffer.           *)
MixedRates ==
    \E i, j \in DOMAIN audioBuffers :
        audioBuffers[i].sampleRate # audioBuffers[j].sampleRate

C22_MixedRatesFailFast ==
    MixedRates /\ bpc \in {"done", "failed"} =>
        bpc = "failed" /\ processedBuffer = <<>>

(* C25: a failed initialization is not cached: no call of                  *)
(* getEssentiaInstance, with or without a cleanupEssentia in between,      *)
(* returns a promise that was already rejected when the call was made.     *)
C25_FailureNotCached ==
    \A k \in DOMAIN calls : calls[k].joinedSettled # "rejected"

(* C26: once cleanupEssentia has been called, the initializations pending  *)
(* at that call have settled and getEssentiaInstance has not been called   *)
(* since, the module holds neither an instance nor a promise; and no       *)
(* caller receives an instance that has been shut down and deleted.        *)
C26_CleanupLeavesNothing ==
    /\ ( /\ cleanups > 0
         /\ \A p \in pendingAtCleanup : promises[p].state # "pending"
         /\ ~getAfterCleanup )
       => essentiaInstance = Null /\ essentiaPromise = Null
    /\ \A k \in Resolved : ~calls[k].deletedOnReceipt

----------------------------------------------------------------------------
(* PixooVisualizer (src/unnamed/part_005) over PixooClient                 *)
(* (src/unnamed/part_006).                                                 *)
(*                                                                         *)
(* A client method builds its request and calls fetch before its first     *)
(* await, so a command is sent at the moment the method is called; the     *)
(* caller's await resumes when the fetch resolves, or throws when it       *)
(* rejects.  timers is the set of the window's active interval timers.     *)
(* animationFrame is never assigned and stays null.  sentAfterStop lists   *)
(* the commands sent since the last stop(), while no start() or            *)
(* startBeatSync() has followed it.                                        *)

\* method calls drawn in VisualizerSpec
MaxApiCalls == 4
\* beat effects drawn
MaxEffects == 2

Metrics(bpm, energy, score, danceability, spectralEnergy) ==
    [bpm |-> bpm, energy |-> energy, score |-> score,
     danceability |-> danceability, spectralEnergy |-> spectralEnergy]

\* no bar; all four bars; the danceability bar only (3 BPM and 1 % floor to
\* a width of 0); the BPM bar, clamped, and the spectral bar; the energy bar
\* only
MetricsInputs ==
    { Metrics(0, 0, 0, 0, 0),
      Metrics(150, 50, 70, 50, 50),
      Metrics(3, 1, 40, 100, 0),
      Metrics(250, 0, 99, 0, 100),
      Metrics(-50, 50, 10, 1, 1) }

BpmInputs == {90, 150}

\* the commands of updateMetrics in the order of the code
CommandNames ==
    <<"fill", "bpmBar", "energyBar", "danceabilityBar", "spectralBar",
      "bpmText", "scoreText">>

\* Math.min(Math.floor((value / full) * 64), 64)
BarSize(value, full) == Min((value * 64) \div full, 64)

\* whether updateMetrics issues its c-th command
Drawn(c, m) ==
    CASE c = 2 -> BarSize(m.bpm, 200) > 0
      [] c = 3 -> BarSize(m.energy, 100) > 0
      [] c = 4 -> BarSize(m.danceability, 100) > 0
      [] c = 5 -> BarSize(m.spectralEnergy, 100) > 0
      [] OTHER -> TRUE

\* push_immediately of every command true
PushImmediatelyAlways(c) == TRUE

\* push_immediately of the c-th command of updateMetrics
PushImmediately(c) == c = 7

Command(name, push) == [cmd |-> name, push |-> push]

MetricsCommand(c) == Command(CommandNames[c], PushImmediately(c))

\* the command updateMetrics issues after its c-th
NextCommand(c, m) == CHOOSE d \in c + 1 .. 7 :
                         Drawn(d, m) /\ \A e \in c + 1 .. d - 1 : ~Drawn(e, m)

\* a client method is called: its request goes out
Send(commands) ==
    /\ sentAfterStop' = IF stopped THEN sentAfterStop \o commands ELSE sentAfterStop
    /\ UNCHANGED stopped

\* start()
start ==
    /\ isRunning' = TRUE
    /\ stopped' = FALSE
    /\ sentAfterStop' = <<>>
    /\ UNCHANGED <<beatInterval, currentBpm, timers, timerCount>>

\* stop()
stop ==
    /\ isRunning' = FALSE
    /\ timers' = IF beatInterval # Null THEN timers \ {beatInterval} ELSE timers
    /\ beatInterval' = Null
    /\ stopped' = TRUE
    /\ sentAfterStop' = <<Command("clear", TRUE)>>
    /\ UNCHANGED <<currentBpm, timerCount>>

\* startBeatSync(bpm)
startBeatSync(bpm) ==
    /\ isRunning' = TRUE
    /\ currentBpm' = bpm
    /\ timerCount' = timerCount + 1
    /\ beatInterval' = timerCount + 1
    /\ timers' = timers \cup {timerCount + 1}
    /\ stopped' = FALSE
    /\ sentAfterStop' = <<>>

\* updateMetrics(metrics), up to its first await
updateMetrics(m) ==
    /\ updatePc = 0
    /\ updateArg' = m
    /\ IF ~isRunning
          THEN /\ updatePc' = 0
               /\ updateLog' = <<>>
               /\ updateOutcome' = "skipped"
               /\ UNCHANGED wireVars
          ELSE /\ updatePc' = 1
               /\ updateLog' = <<MetricsCommand(1)>>
               /\ updateOutcome' = "running"
               /\ Send(<<MetricsCommand(1)>>)

\* flashBeat(), up to its await
flashBeat ==
    /\ flashPc = "idle"
    /\ IF ~isRunning
          THEN UNCHANGED <<flashPc, wireVars>>
          ELSE /\ flashPc' = "fill"
               /\ Send(<<Command("flashWhite", TRUE)>>)
    /\ UNCHANGED flashTimeouts

CallStart ==
    /\ apiCalls < MaxApiCalls
    /\ apiCalls' = apiCalls + 1
    /\ start
    /\ UNCHANGED <<updateVars, flashVars, effectsDrawn>>
    /\ UNCHANGED <<coreVars, essentiaVars, pageVars>>

CallStop ==
    /\ apiCalls < MaxApiCalls
    /\ apiCalls' = apiCalls + 1
    /\ stop
    /\ UNCHANGED <<updateVars, flashVars, effectsDrawn>>
    /\ UNCHANGED <<coreVars, essentiaVars, pageVars>>

CallStartBeatSync ==
    /\ apiCalls < MaxApiCalls
    /\ apiCalls' = apiCalls + 1
    /\ \E bpm \in BpmInputs : startBeatSync(bpm)
    /\ UNCHANGED <<updateVars, flashVars, effectsDrawn>>
    /\ UNCHANGED <<coreVars, essentiaVars, pageVars>>

CallUpdateMetrics ==
    /\ apiCalls < MaxApiCalls
    /\ apiCalls' = apiCalls + 1
    /\ \E m \in MetricsInputs : updateMetrics(m)
    /\ UNCHANGED <<runVars, flashVars, effectsDrawn>>
    /\ UNCHANGED <<coreVars, essentiaVars, pageVars>>

CallFlashBeat ==
    /\ apiCalls < MaxApiCalls
    /\ apiCalls' = apiCalls + 1
    /\ flashBeat
    /\ UNCHANGED <<runVars, updateVars, effectsDrawn>>
    /\ UNCHANGED <<coreVars, essentiaVars, pageVars>>

\* the fetch of the command updateMetrics awaits resolves: the next
\* command goes out, or the call returns after its last
UpdateMetricsResolves ==
    /\ updatePc \in 1 .. 7
    /\ IF updatePc = 7
          THEN /\ updatePc' = 0
               /\ updateOutcome' = "completed"
               /\ UNCHANGED <<updateLog, wireVars>>
          ELSE LET c == NextCommand(updatePc, updateArg)
               IN  /\ updatePc' = c
                   /\ updateLog' = Append(updateLog, MetricsCommand(c))
                   /\ Send(<<MetricsCommand(c)>>)
                   /\ UNCHANGED updateOutcome
    /\ UNCHANGED <<updateArg, runVars, flashVars, apiCalls, effectsDrawn>>
    /\ UNCHANGED <<coreVars, essentiaVars, pageVars>>

\* the fetch rejects (the display is unreachable): the catch ends the call
UpdateMetricsRejects ==
    /\ updatePc \in 1 .. 7
    /\ updatePc' = 0
    /\ updateOutcome' = "failed"
    /\ UNCHANGED <<updateArg, updateLog, wireVars, runVars, flashVars, apiCalls,
                   effectsDrawn>>
    /\ UNCHANGED <<coreVars, essentiaVars, pageVars>>

\* the white fill of flashBeat resolves: the 50 ms timeout is set
FlashResolves ==
    /\ flashPc = "fill"
    /\ flashPc' = "idle"
    /\ flashTimeouts' = flashTimeouts + 1
    /\ UNCHANGED <<runVars, updateVars, wireVars, apiCalls, effectsDrawn>>
    /\ UNCHANGED <<coreVars, essentiaVars, pageVars>>

\* the white fill of flashBeat rejects: the catch ends the call
FlashRejects ==
    /\ flashPc = "fill"
    /\ flashPc' = "idle"
    /\ UNCHANGED <<flashTimeouts, runVars, updateVars, wireVars, apiCalls,
                   effectsDrawn>>
    /\ UNCHANGED <<coreVars, essentiaVars, pageVars>>

\* the timeout of flashBeat fires
FlashTimeout ==
    /\ flashTimeouts > 0
    /\ flashTimeouts' = flashTimeouts - 1
    /\ IF isRunning
          THEN Send(<<Command("flashBlack", TRUE)>>)
          ELSE UNCHANGED wireVars
    /\ UNCHANGED <<flashPc, runVars, updateVars, apiCalls, effectsDrawn>>
    /\ UNCHANGED <<coreVars, essentiaVars, pageVars>>

\* an interval timer of startBeatSync fires: drawRandomBeatEffect sends
\* the commands of one effect, the last of them pushed
BeatTick(t) ==
    /\ t \in timers
    /\ effectsDrawn < MaxEffects
    /\ IF isRunning
          THEN /\ effectsDrawn' = effectsDrawn + 1
               /\ Send(<<Command("beatEffect", TRUE)>>)
          ELSE UNCHANGED <<effectsDrawn, wireVars>>
    /\ UNCHANGED <<runVars, updateVars, flashVars, apiCalls>>
    /\ UNCHANGED <<coreVars, essentiaVars, pageVars>>

VisualizerInit ==
    /\ MixerIdle
    /\ BrainrotIdle
    /\ QuantizerIdle
    /\ AppIdle

VisualizerNext ==
    \/ CallStart
    \/ CallStop
    \/ CallStartBeatSync
    \/ CallUpdateMetrics
    \/ CallFlashBeat
    \/ UpdateMetricsResolves
    \/ UpdateMetricsRejects
    \/ FlashResolves
    \/ FlashRejects
    \/ FlashTimeout
    \/ \E t \in timers : BeatTick(t)

VisualizerSpec == VisualizerInit /\ [][VisualizerNext]_vars

\* the commands the claim gives for a call with metrics m: the seven in
\* order without the zero-sized bars, pushed by the last only
ExpectedCommands(m) ==
    LET kept == SelectSeq(<<1, 2, 3, 4, 5, 6, 7>>, LAMBDA c : Drawn(c, m))
    IN  [i \in 1 .. Len(kept) |->
            [cmd |-> CommandNames[kept[i]], push |-> (i = Len(kept))]]

IsPrefix(a, b) == Len(a) <= Len(b) /\ \A i \in 1 .. Len(a) : a[i] = b[i]

(* C23: an updateMetrics call made while the visualizer runs sends fill,   *)
(* BPM bar, energy bar, danceability bar, spectral bar, BPM text and score *)
(* text in this order, without the bars of size zero; every command so far *)
(* carries push_immediately = false except the score text, the last, which *)
(* carries true; a call that returns without a failed request has sent     *)
(* them all.                                                               *)
C23_OrderedBatchPushedByLast ==
    updateOutcome \in {"running", "completed", "failed"} =>
        /\ IsPrefix(updateLog, ExpectedCommands(updateArg))
        /\ updateLog # <<>>
        /\ updateOutcome = "completed" => updateLog = ExpectedCommands(updateArg)
        /\ ExpectedCommands(updateArg)[Len(ExpectedCommands(updateArg))] =
               [cmd |-> "scoreText", push |-> TRUE]

\* a call that skipped two bars and drew two has returned
C23_Witness ==
    /\ updateOutcome = "completed"
    /\ Len(updateLog) = 5
    /\ updateLog[2].cmd = "bpmBar"
    /\ updateLog[3].cmd = "spectralBar"

(* C27: at most one interval timer of startBeatSync is active at a time,   *)
(* and after stop() none is.                                               *)
C27_OneBeatTimer ==
    /\ Cardinality(timers) <= 1
    /\ stopped => timers = {}

(* C29: after stop(), until the next start() or startBeatSync(), the only  *)
(* command sent to the display is the clear of stop itself.                *)
C29_SilentAfterStop ==
    stopped => sentAfterStop = <<Command("clear", TRUE)>>

----------------------------------------------------------------------------
(* The pages.  pageKind "visualizer" is the page of src/unnamed/part_003   *)
(* (upload and analysis, banger score, generate, play, with the Pixoo      *)
(* visualizer), "plain" the page of src/unnamed/part_004 (file, process,   *)
(* play).  A user event is taken when its control is rendered and enabled. *)
(* An await is a step of its own: analyzePc and processPc tell where       *)
(* handleAnalyze and handleProcess wait.  sources holds the audio sources  *)
(* whose ended event is still to come, whether they play on or were        *)
(* stopped.  updateIntervalRef is never assigned and stays null.           *)
(* processOutcome tells how the last handleProcess run for the chosen file *)
(* went; syncedSource is the source for which handlePlay started beat      *)
(* sync, until the user stops playback or that source ends.                *)

\* user events drawn
MaxClicks == 5

\* results of analyzeBanification; danceability and spectralEnergy, which
\* lie in 0 .. 1, are held in hundredths
BanificationScore(score, bpm, energy, danceability, spectralEnergy) ==
    [score |-> score, bpm |-> bpm, energy |-> energy,
     danceability |-> danceability, spectralEnergy |-> spectralEnergy,
     verdict |-> IF score >= 65 THEN "ALREADY A BANGER"
                 ELSE "NEEDS TO BE BANGIFIED"]

ScoreInputs ==
    { BanificationScore(40, 90, 0, 50, 50),
      BanificationScore(70, 150, 50, 50, 50),
      BanificationScore(99, 150, 50, 100, 100) }

\* the metrics handleAnalyze passes to updateMetrics: danceability * 100
\* and spectralEnergy * 100 are the hundredths held
MetricsOf(score) ==
    Metrics(score.bpm, score.energy, score.score, score.danceability,
            score.spectralEnergy)

\* the file input is rendered and enabled
FileInputEnabled ==
    IF pageKind = "visualizer"
       THEN banificationScore = NoScore /\ ~(processing \/ analyzing)
       ELSE ~processing

\* the analyze button is rendered and enabled
AnalyzeButtonEnabled ==
    /\ pageKind = "visualizer"
    /\ banificationScore = NoScore
    /\ ~(~file \/ analyzing \/ processing)

\* the generate button is rendered
GenerateButtonShown ==
    IF pageKind = "visualizer"
       THEN /\ banificationScore # NoScore
            /\ banificationScore.score < 99
            /\ processedAudio = Null
       ELSE TRUE

\* the generate button is rendered and enabled
GenerateButtonEnabled == GenerateButtonShown /\ ~(~file \/ processing)

\* the play button is rendered
PlayButtonShown == processedAudio # Null

\* the visualizer leaves the page's variables alone
VisualizerRests ==
    UNCHANGED <<runVars, updateVars, flashVars, wireVars, apiCalls, effectsDrawn>>

\* handleFileChange with a file chosen
HandleFileChange ==
    /\ pageKind # "none"
    /\ clicks < MaxClicks
    /\ FileInputEnabled
    /\ clicks' = clicks + 1
    /\ file' = TRUE
    /\ message' = ""
    /\ processedAudio' = Null
    /\ banificationScore' = NoScore
    /\ processOutcome' = "none"
    /\ UNCHANGED <<pageKind, analyzing, processing, isPlaying, audioControl,
                   analyzePc, processPc, stopTimeouts, sources, sourceCount,
                   processCount, syncedSource>>
    /\ VisualizerRests
    /\ UNCHANGED <<coreVars, essentiaVars>>

\* handleAnalyze, up to `await analyzeBanification`
HandleAnalyze ==
    /\ clicks < MaxClicks
    /\ AnalyzeButtonEnabled
    /\ clicks' = clicks + 1
    /\ analyzing' = TRUE
    /\ banificationScore' = NoScore
    /\ message' = ""
    /\ start
    /\ analyzePc' = "analyze"
    /\ UNCHANGED <<pageKind, file, processing, processedAudio, isPlaying,
                   audioControl, processPc, stopTimeouts, sources, sourceCount,
                   processCount, processOutcome, syncedSource>>
    /\ UNCHANGED <<updateVars, flashVars, apiCalls, effectsDrawn>>
    /\ UNCHANGED <<coreVars, essentiaVars>>

\* a progress callback of analyzeBanification
AnalyzeProgress ==
    /\ analyzePc = "analyze"
    /\ message' = "analysis progress"
    /\ UNCHANGED <<pageKind, file, analyzing, processing, banificationScore,
                   processedAudio, isPlaying, audioControl, analyzePc, processPc,
                   stopTimeouts, sources, sourceCount, processCount,
                   processOutcome, syncedSource, clicks>>
    /\ VisualizerRests
    /\ UNCHANGED <<coreVars, essentiaVars>>

\* analyzeBanification resolves: the score is set and updateMetrics called
AnalyzeResolves ==
    /\ analyzePc = "analyze"
    /\ \E score \in ScoreInputs :
          /\ banificationScore' = score
          /\ updateMetrics(MetricsOf(score))
    /\ message' = "score message"
    /\ analyzePc' = "update"
    /\ UNCHANGED <<pageKind, file, analyzing, processing, processedAudio,
                   isPlaying, audioControl, processPc, stopTimeouts, sources,
                   sourceCount, processCount, processOutcome, syncedSource,
                   clicks>>
    /\ UNCHANGED <<runVars, flashVars, apiCalls, effectsDrawn>>
    /\ UNCHANGED <<coreVars, essentiaVars>>

\* the finally block of handleAnalyze
AnalyzeFinally ==
    /\ analyzing' = FALSE
    /\ stopTimeouts' = stopTimeouts + 1
    /\ analyzePc' = "idle"

\* analyzeBanification throws
AnalyzeThrows ==
    /\ analyzePc = "analyze"
    /\ message' = "ANALYSIS FAILED! TRY AGAIN!"
    /\ AnalyzeFinally
    /\ UNCHANGED <<pageKind, file, processing, banificationScore, processedAudio,
                   isPlaying, audioControl, processPc, sources, sourceCount,
                   processCount, processOutcome, syncedSource, clicks>>
    /\ VisualizerRests
    /\ UNCHANGED <<coreVars, essentiaVars>>

\* `await updateMetrics` returns (updateMetrics catches what it throws)
AnalyzeUpdated ==
    /\ analyzePc = "update"
    /\ updatePc = 0
    /\ AnalyzeFinally
    /\ UNCHANGED <<pageKind, file, processing, message, banificationScore,
                   processedAudio, isPlaying, audioControl, processPc, sources,
                   sourceCount, processCount, processOutcome, syncedSource,
                   clicks>>
    /\ VisualizerRests
    /\ UNCHANGED <<coreVars, essentiaVars>>

\* the timeout set by handleAnalyze fires after 3 s
StopTimeout ==
    /\ stopTimeouts > 0
    /\ stopTimeouts' = stopTimeouts - 1
    /\ stop
    /\ UNCHANGED <<pageKind, stateVars, analyzePc, processPc, sources,
                   sourceCount, processCount, processOutcome, syncedSource,
                   clicks>>
    /\ UNCHANGED <<updateVars, flashVars, apiCalls, effectsDrawn>>
    /\ UNCHANGED <<coreVars, essentiaVars>>

\* handleProcess with a file, up to `await processAudioInBrowser`
HandleProcess ==
    /\ pageKind # "none"
    /\ clicks < MaxClicks
    /\ GenerateButtonEnabled
    /\ clicks' = clicks + 1
    /\ processing' = TRUE
    /\ processedAudio' = Null
    /\ processPc' = "pending"
    /\ processCount' = processCount + 1
    /\ processOutcome' = "pending"
    /\ UNCHANGED <<pageKind, file, analyzing, message, banificationScore,
                   isPlaying, audioControl, analyzePc, stopTimeouts, sources,
                   sourceCount, syncedSource>>
    /\ VisualizerRests
    /\ UNCHANGED <<coreVars, essentiaVars>>

\* a progress callback of processAudioInBrowser
ProcessProgress ==
    /\ processPc = "pending"
    /\ message' = "processing progress"
    /\ UNCHANGED <<pageKind, file, analyzing, processing, banificationScore,
                   processedAudio, isPlaying, audioControl, analyzePc, processPc,
                   stopTimeouts, sources, sourceCount, processCount,
                   processOutcome, syncedSource, clicks>>
    /\ VisualizerRests
    /\ UNCHANGED <<coreVars, essentiaVars>>

\* processAudioInBrowser resolves; then the finally block
ProcessResolves ==
    /\ processPc = "pending"
    /\ processedAudio' = processCount
    /\ message' = "BOOM! YOUR TRACK IS READY TO RAGE!"
    /\ processing' = FALSE
    /\ processPc' = "idle"
    /\ processOutcome' = "resolved"
    /\ UNCHANGED <<pageKind, file, analyzing, banificationScore, isPlaying,
                   audioControl, analyzePc, stopTimeouts, sources, sourceCount,
                   processCount, syncedSource, clicks>>
    /\ VisualizerRests
    /\ UNCHANGED <<coreVars, essentiaVars>>

\* processAudioInBrowser throws: the catch, without the finally block
ProcessThrowsNoFinally ==
    /\ processPc = "pending"
    /\ message' = "SYSTEM OVERLOAD! TRY AGAIN!"
    /\ processPc' = "idle"
    /\ processOutcome' = "threw"
    /\ UNCHANGED <<pageKind, file, analyzing, processing, banificationScore,
                   processedAudio, isPlaying, audioControl, analyzePc,
                   stopTimeouts, sources, sourceCount, processCount,
                   syncedSource, clicks>>
    /\ VisualizerRests
    /\ UNCHANGED <<coreVars, essentiaVars>>

\* processAudioInBrowser throws: the catch, then the finally block
ProcessThrows ==
    /\ processPc = "pending"
    /\ message' = "SYSTEM OVERLOAD! TRY AGAIN!"
    /\ processing' = FALSE
    /\ processPc' = "idle"
    /\ processOutcome' = "threw"
    /\ UNCHANGED <<pageKind, file, analyzing, banificationScore, processedAudio,
                   isPlaying, audioControl, analyzePc, stopTimeouts, sources,
                   sourceCount, processCount, syncedSource, clicks>>
    /\ VisualizerRests
    /\ UNCHANGED <<coreVars, essentiaVars>>

\* handlePlay
HandlePlay ==
    /\ pageKind # "none"
    /\ clicks < MaxClicks
    /\ PlayButtonShown
    /\ clicks' = clicks + 1
    /\ IF isPlaying /\ audioControl # Null
          THEN /\ isPlaying' = FALSE
               /\ audioControl' = Null
               /\ syncedSource' = Null
               /\ UNCHANGED <<sources, sourceCount>>
               /\ IF pageKind = "visualizer"
                     THEN stop
                     ELSE UNCHANGED <<runVars, wireVars>>
          ELSE /\ sourceCount' = sourceCount + 1
               /\ sources' = sources \cup {sourceCount + 1}
               /\ audioControl' = sourceCount + 1
               /\ isPlaying' = TRUE
               /\ IF pageKind = "visualizer" /\ banificationScore # NoScore
                     THEN /\ startBeatSync(banificationScore.bpm)
                          /\ syncedSource' = sourceCount + 1
                     ELSE UNCHANGED <<runVars, wireVars, syncedSource>>
    /\ UNCHANGED <<pageKind, file, analyzing, processing, message,
                   banificationScore, processedAudio, analyzePc, processPc,
                   stopTimeouts, processCount, processOutcome>>
    /\ UNCHANGED <<updateVars, flashVars, apiCalls, effectsDrawn>>
    /\ UNCHANGED <<coreVars, essentiaVars>>

\* the ended event of a source, which played to its end or was stopped:
\* the onEnded callback given to playAudioBuffer
SourceEnded(s) ==
    /\ s \in sources
    /\ sources' = sources \ {s}
    /\ isPlaying' = FALSE
    /\ audioControl' = Null
    /\ syncedSource' = IF syncedSource = s THEN Null ELSE syncedSource
    /\ IF pageKind = "visualizer"
          THEN stop
          ELSE UNCHANGED <<runVars, wireVars>>
    /\ UNCHANGED <<pageKind, file, analyzing, processing, message,
                   banificationScore, processedAudio, analyzePc, processPc,
                   stopTimeouts, sourceCount, processCount, processOutcome,
                   clicks>>
    /\ UNCHANGED <<updateVars, flashVars, apiCalls, effectsDrawn>>
    /\ UNCHANGED <<coreVars, essentiaVars>>

\* the page is mounted
PageInit ==
    /\ MixerIdle
    /\ BrainrotIdle
    /\ QuantizerIdle
    /\ EssentiaIdle
    /\ VisualizerIdle
    /\ pageKind \in {"visualizer", "plain"}
    /\ file = FALSE
    /\ analyzing = FALSE
    /\ processing = FALSE
    /\ message = ""
    /\ banificationScore = NoScore
    /\ processedAudio = Null
    /\ isPlaying = FALSE
    /\ audioControl = Null
    /\ analyzePc = "idle"
    /\ processPc = "idle"
    /\ stopTimeouts = 0
    /\ sources = {}
    /\ sourceCount = 0
    /\ processCount = 0
    /\ processOutcome = "none"
    /\ syncedSource = Null
    /\ clicks = 0

\* processAudioInBrowser settles
ProcessSettles == ProcessResolves \/ ProcessThrows

PageNext ==
    \/ HandleFileChange
    \/ HandleAnalyze
    \/ AnalyzeProgress
    \/ AnalyzeResolves
    \/ AnalyzeThrows
    \/ AnalyzeUpdated
    \/ StopTimeout
    \/ HandleProcess
    \/ ProcessProgress
    \/ ProcessResolves
    \/ ProcessThrows
    \/ HandlePlay
    \/ \E s \in sources : SourceEnded(s)
    \/ UpdateMetricsResolves
    \/ UpdateMetricsRejects
    \/ \E t \in timers : BeatTick(t)

PageSpec == PageInit /\ [][PageNext]_vars

\* the promise of processAudioInBrowser settles
PageLiveSpec == PageSpec /\ WF_vars(ProcessSettles)

(* C24: on the page with the banger score, the generate button is rendered *)
(* only when a score exists, the score is below 65 and no processed audio  *)
(* exists; for a score of 65 or more it is not rendered.                   *)
C24_GenerateOnlyBelow65 ==
    pageKind = "visualizer" /\ GenerateButtonShown =>
        /\ banificationScore # NoScore
        /\ banificationScore.score < 65
        /\ banificationScore.verdict = "NEEDS TO BE BANGIFIED"
        /\ processedAudio = Null

(* C28: from the moment handlePlay has started playback and beat sync      *)
(* until the user stops playback or the playback ends, the visualizer is   *)
(* running and its beat timer is active.                                   *)
C28_PlaybackKeepsVisualizer ==
    syncedSource # Null => isRunning /\ beatInterval \in timers

\* what holds of a handleProcess run in every state
ProcessRunState ==
    /\ processPc = "pending" => processing /\ processedAudio = Null
    /\ processedAudio # Null => processOutcome = "resolved" /\ ~processing
    /\ processOutcome = "threw" =>
          /\ ~processing
          /\ processedAudio = Null
          /\ message = "SYSTEM OVERLOAD! TRY AGAIN!"

====
